---- MODULE Spec2Model ----
(***************************************************************************)
(* A model of the nijiGPen polygon operators: hole processing, offset of   *)
(* selected strokes, Boolean of selected strokes, the operators'           *)
(* dependency check, mesh generation by offsetting, the coordinate         *)
(* projector and the polygon converter.                                    *)
(*                                                                         *)
(* Each operator is a small program over the host's stroke data.  The      *)
(* results of the clipping library (PointInPolygon, Execute) and of the    *)
(* host's fill operators are inputs, drawn from bounded sets.              *)
(***************************************************************************)
EXTENDS Integers, Sequences, FiniteSets, TLC

VARIABLES
    pc,                   \* position of the running operator
    operator,             \* which operator is running
    pyclipper_available,  \* whether "import pyclipper" succeeds
    report,               \* messages passed to self.report, in order
    strokes,              \* frames_to_process: the stroke ids of each frame,
                          \* bottom to top
    frame_idx,            \* the frame (group) being processed
    select,               \* stroke.select
    select_index,         \* stroke.select_index
    material_index,       \* stroke.material_index (1-based slot)
    vertex_color_fill,    \* stroke.vertex_color_fill
    layer_lock,           \* layer.lock of the layer of each frame
    material_slots,       \* gp_obj.material_slots
    separate_colors,      \* HoleProcessingOperator.separate_colors
    rearrange,            \* HoleProcessingOperator.rearrange
    inside,               \* is_poly_in_poly(poly_list[i], poly_list[j])
    to_process,           \* process_one_frame: to_process
    relation_mat,         \* process_one_frame: relation_mat
    is_hole_map,          \* process_one_frame: is_hole_map
    processed,            \* process_one_frame: processed
    material_idx_map,     \* execute: material_idx_map
    select_map,           \* process_one_frame: select_map
    hole_runs,            \* the calls of HoleProcessingOperator.execute that
                          \* have returned
    peel_log,             \* one entry per executed iteration of the peeling loop:
                          \* its idx_list, and is_hole_map, material_index and
                          \* material_slots as they were when it began
    operation_type,       \* BoolSelectedOperator.operation_type
    stroke_inherited,     \* BoolSelectedOperator.stroke_inherited
    processing_seq,       \* BoolSelectedOperator.processing_seq
    num_clips,            \* BoolSelectedOperator.num_clips
    keep_subjects,        \* BoolSelectedOperator.keep_subjects
    keep_clips,           \* BoolSelectedOperator.keep_clips
    stroke_info,          \* execute: stroke_info, as [stroke, layer, index]
    select_seq,           \* execute: select_seq
    subject_set,          \* execute: subject_set
    clip_set,             \* execute: clip_set
    ref_stroke_mask,      \* execute: ref_stroke_mask
    generated_strokes,    \* execute: generated_strokes
    pending,              \* the subjects the loop of line 544 has yet to visit
    clipper_log,          \* one entry per clipper.Execute: the operation and
                          \* the paths added since the last clipper.Clear
    mode,                 \* context.mode, set by bpy.ops.object.mode_set
    meshes,               \* the names of the mesh objects linked to the scene
    working_plane,        \* scene.nijigp_working_plane
    resolution,           \* MeshGenerationByOffsetting.resolution
    slope_style,          \* MeshGenerationByOffsetting.slope_style
    offset_interval,      \* process_single_stroke: offset_interval
    keep_original,        \* MeshGenerationByOffsetting.keep_original
    offset_result,        \* clipper.Execute(delta) for the outline of the
                          \* selected strokes, a polygon being given by its
                          \* number of points
    fill_result,          \* the numbers of vertices of the faces that the
                          \* k-th fill operator of a stroke creates
    mesh_stroke_info,     \* MeshGenerationByOffsetting.execute: stroke_info
    mesh_names,           \* MeshGenerationByOffsetting.execute: mesh_names
    stroke_i,             \* the stroke the loop of line 215 is at
    contours,             \* process_single_stroke: contours
    vert_idx_list,        \* process_single_stroke: vert_idx_list
    level_j,              \* the level the loop of line 140 is at
    verts_by_level,       \* process_single_stroke: verts_by_level
    edges_by_level,       \* process_single_stroke: edges_by_level
    edge_extruded,        \* process_single_stroke: edge_extruded
    faces,                \* bm.faces, as the numbers of the faces
    face_verts,           \* len(face.verts) of every face created in bm
    bm_verts,             \* the vertices bm.verts.new created for a stroke:
                          \* the level, its height and the position
    proj_co,              \* a 2D point
    proj_depth,           \* a depth
    proj_scale,           \* a scale factor
    proj_out,             \* the values the projector returns for them
    stroke_points,        \* stroke.points of the strokes of stroke_list
    scale,                \* stroke_to_poly: scale
    correct_orientation,  \* stroke_to_poly: correct_orientation
    fixed_scale_factor,   \* stroke_to_poly: the argument scale_factor
    orientation,          \* what pyclipper.Orientation returned, by polygon
    poly_list,            \* stroke_to_poly: poly_list
    scale_factor,         \* stroke_to_poly: scale_factor
    offset_amount,        \* self.offset_amount of offset selected and of mesh
                          \* generation
    multiframe_falloff,   \* self.multiframe_falloff
    end_type_mode,        \* self.end_type_mode
    offset_keep_original, \* self.keep_original of offset selected
    invert_holdout,       \* self.invert_holdout
    use_multiedit,        \* current_gp_obj.data.use_multiedit
    frame_current,        \* context.scene.frame_current
    offset_j              \* the position in stroke_list of the loop of line 311

hostVars == <<strokes, select, select_index, material_index, vertex_color_fill,
              layer_lock, material_slots>>
holeLocals == <<separate_colors, rearrange, inside, to_process, relation_mat,
                is_hole_map, processed, material_idx_map, peel_log, hole_runs>>
holeVars == <<holeLocals, select_map>>
boolOptions == <<operation_type, stroke_inherited, processing_seq, num_clips,
                 keep_subjects, keep_clips>>
boolLocals == <<stroke_info, select_seq, subject_set, clip_set, ref_stroke_mask,
                generated_strokes, pending, clipper_log>>
boolVars == <<boolOptions, boolLocals>>
sceneVars == <<mode, meshes, working_plane>>
meshOptions == <<resolution, slope_style, offset_interval, keep_original,
                 offset_result, fill_result>>
meshLocals == <<mesh_stroke_info, mesh_names, stroke_i, contours, vert_idx_list,
                level_j, verts_by_level, edges_by_level, edge_extruded, faces,
                face_verts>>
meshVars == <<meshOptions, meshLocals, bm_verts>>
projVars == <<proj_co, proj_depth, proj_scale, proj_out>>
polyArgs == <<stroke_points, scale, correct_orientation, fixed_scale_factor>>
polyVars == <<polyArgs, orientation, poly_list, scale_factor>>
offsetOptions == <<offset_amount, multiframe_falloff, end_type_mode,
                   offset_keep_original, invert_holdout, use_multiedit,
                   frame_current>>
offsetVars == <<offsetOptions, offset_j>>
outsideHole == <<boolVars, sceneVars, meshVars, projVars, polyVars, offsetVars>>
outsideBool == <<holeLocals, sceneVars, meshVars, projVars, polyVars, offsetVars>>
outsideMesh == <<holeVars, boolVars, projVars, polyVars, offsetVars>>
vars == <<pc, operator, pyclipper_available, report, frame_idx, hostVars, holeVars,
          boolVars, sceneVars, meshVars, projVars, polyVars, offsetVars>>

(***************************************************************************)
(* Bounds of the model.                                                    *)
(***************************************************************************)
MaxPolys == 3
MaxPairs == 3

(***************************************************************************)
(* Generic helpers.                                                        *)
(***************************************************************************)
Range(f) == {f[x] : x \in DOMAIN f}

RECURSIVE SeqSum(_)
SeqSum(s) == IF s = <<>> THEN 0 ELSE Head(s) + SeqSum(Tail(s))

RECURSIVE SelectSeq2(_, _)
\* the subsequence of s whose elements are in the set keep
SelectSeq2(s, keep) ==
    IF s = <<>> THEN <<>>
    ELSE IF Head(s) \in keep THEN <<Head(s)>> \o SelectSeq2(Tail(s), keep)
         ELSE SelectSeq2(Tail(s), keep)

MissingDependencyMsg == "Please install dependencies in the Preferences panel."

(***************************************************************************)
(* Materials.  A material name is a sequence of name parts, so that        *)
(* src_mat_name + '_Holdout' is a concatenation.                           *)
(***************************************************************************)
Material(name, fill, holdout) ==
    [name |-> name, show_fill |-> fill, use_fill_holdout |-> holdout]

InitialSlots ==
    << Material(<<"Solid">>, TRUE, FALSE),
       Material(<<"Line">>, FALSE, FALSE),
       Material(<<"Hole">>, TRUE, TRUE) >>

Colors == {1, 2}

is_stroke_line(slots, midx) == ~ slots[midx].show_fill

is_stroke_hole(slots, midx) == slots[midx].use_fill_holdout

(***************************************************************************)
(* The host's selection data.  A stroke's select_index is positive exactly *)
(* while it is selected: selecting a stroke gives it the next index,       *)
(* deselecting it resets the index to 0.                                   *)
(***************************************************************************)
RECURSIVE FlattenFrames(_)
\* the strokes of all frames in the order "for frame: for stroke"
FlattenFrames(frames) ==
    IF frames = <<>> THEN <<>> ELSE Head(frames) \o FlattenFrames(Tail(frames))

RECURSIVE SetSelect(_, _, _)
\* stroke.select = want[s] for the strokes of order, one after the other
SetSelect(order, selidx, want) ==
    IF order = <<>> THEN selidx
    ELSE LET s == Head(order)
             last == IF DOMAIN selidx = {} THEN 0
                     ELSE CHOOSE m \in Range(selidx) : \A x \in Range(selidx) : x <= m
             new == IF ~ want[s] THEN 0
                    ELSE IF selidx[s] > 0 THEN selidx[s] ELSE last + 1
         IN  SetSelect(Tail(order), [selidx EXCEPT ![s] = new], want)

(***************************************************************************)
(* save_stroke_selection / load_stroke_selection.  A stroke belongs to one *)
(* frame; the map is keyed by frame and stroke.                            *)
(***************************************************************************)
AllStrokes(frames) == UNION {Range(frames[f]) : f \in 1..Len(frames)}

\* the frame that holds stroke s
FrameOf(frames, s) == CHOOSE f \in 1..Len(frames) : s \in Range(frames[f])

save_stroke_selection(frames, selidx) ==
    [f \in 1..Len(frames) |-> [s \in Range(frames[f]) |-> selidx[s]]]

\* load_stroke_selection without its else branch: a stroke that is not in
\* the map keeps its selection
load_stroke_selection_Keep(frames, smap, sel) ==
    [s \in DOMAIN sel |->
        IF s \in AllStrokes(frames)
        THEN LET f == FrameOf(frames, s)
             IN  IF s \in DOMAIN smap[f] THEN smap[f][s] > 0 ELSE sel[s]
        ELSE sel[s]]

load_stroke_selection(frames, smap, sel) ==
    [s \in DOMAIN sel |->
        IF s \in AllStrokes(frames)
        THEN LET f == FrameOf(frames, s)
             IN  IF s \in DOMAIN smap[f] THEN smap[f][s] > 0 ELSE FALSE
        ELSE sel[s]]

(***************************************************************************)
(* Hole processing: change_material.  h is the part of the state it reads  *)
(* and writes: [mi: material_index, slots: material_slots,                 *)
(* map: material_idx_map].                                                 *)
(***************************************************************************)
HoldoutName(name) == name \o <<"_Holdout">>

SlotNamed(slots, name) ==
    {i \in 1..Len(slots) : slots[i].name = name}

Min(S) == CHOOSE x \in S : \A y \in S : x <= y
Max(S) == CHOOSE x \in S : \A y \in S : y <= x

\* lines 90-97 for every stroke without fill holdout: a new material
change_material_NoReuse(h, stroke) ==
    LET src_mat_idx == h.mi[stroke]
        src_mat == h.slots[src_mat_idx]
        dst_mat == [src_mat EXCEPT !.name = HoldoutName(src_mat.name),
                                   !.use_fill_holdout = TRUE]
    IN  IF src_mat.use_fill_holdout THEN h
        ELSE [mi |-> [h.mi EXCEPT ![stroke] = Len(h.slots) + 1],
              slots |-> Append(h.slots, dst_mat),
              map |-> (src_mat_idx :> (Len(h.slots) + 1)) @@ h.map]

\* lines 65-97
change_material(h, stroke) ==
    LET src_mat_idx == h.mi[stroke]
        src_mat == h.slots[src_mat_idx]
        dst_mat_name == HoldoutName(src_mat.name)
        found == SlotNamed(h.slots, dst_mat_name)
    IN  IF src_mat.use_fill_holdout THEN h
        ELSE IF src_mat_idx \in DOMAIN h.map
        THEN [h EXCEPT !.mi[stroke] = h.map[src_mat_idx]]
        ELSE IF found # {}
        THEN [h EXCEPT !.mi[stroke] = Min(found),
                       !.map = (src_mat_idx :> Min(found)) @@ h.map]
        ELSE LET dst_mat == [src_mat EXCEPT !.name = dst_mat_name,
                                            !.use_fill_holdout = TRUE]
                 dst_mat_idx == Len(h.slots) + 1
             IN  [mi |-> [h.mi EXCEPT ![stroke] = dst_mat_idx],
                  slots |-> Append(h.slots, dst_mat),
                  map |-> (src_mat_idx :> dst_mat_idx) @@ h.map]

(***************************************************************************)
(* Hole processing: process_one_frame.                                     *)
(***************************************************************************)
\* lines 109-113, without the test of is_stroke_line
BuildRelation_NoLineTest(tp, ins, slots, mi) ==
    [i \in 1..Len(tp) |-> [j \in 1..Len(tp) |->
        IF i # j /\ ins[i][j] THEN 1 ELSE 0]]

\* lines 109-113: the relation matrix; entry [i][j] = 1 means i lies in j
BuildRelation(tp, ins, slots, mi) ==
    [i \in 1..Len(tp) |-> [j \in 1..Len(tp) |->
        IF i # j /\ ins[i][j] /\ ~ is_stroke_line(slots, mi[tp[j]])
        THEN 1 ELSE 0]]

RowSum(mat, i) == SeqSum([j \in 1..Len(mat) |-> mat[i][j]])

\* the batch without the test "i not in processed"
OutermostBatch_Reprocess(mat, done) ==
    SelectSeq2([i \in 1..Len(mat) |-> i],
               {i \in 1..Len(mat) : RowSum(mat, i) = 0})

\* the batch without the test of the row: every polygon not yet processed
OutermostBatch_All(mat, done) ==
    SelectSeq2([i \in 1..Len(mat) |-> i], {i \in 1..Len(mat) : i \notin done})

\* lines 127-129: the batch of one iteration, in increasing index order
OutermostBatch(mat, done) ==
    SelectSeq2([i \in 1..Len(mat) |-> i],
               {i \in 1..Len(mat) : RowSum(mat, i) = 0 /\ i \notin done})

\* line 135: the key of polygon i in is_hole_map
ColorKey(sep, vcf, stroke) == IF sep THEN vcf[stroke] ELSE 0

\* the hole policy without the line-only test
AppliesHolePolicy_IgnoreLine(flag, isLine) == flag

\* line 136: whether polygon i gets the hole policy
AppliesHolePolicy(flag, isLine) == flag /\ ~ isLine

RECURSIVE ProcessBatch(_, _, _, _, _, _)
\* lines 131-138, the effect on materials: the polygons of idx_list in order
ProcessBatch(h, idx_list, tp, holeMap, sep, vcf) ==
    IF idx_list = <<>> THEN h
    ELSE LET i == Head(idx_list)
             key == ColorKey(sep, vcf, tp[i])
             h2 == IF AppliesHolePolicy(holeMap[key],
                                        is_stroke_line(h.slots, h.mi[tp[i]]))
                   THEN change_material(h, tp[i]) ELSE h
         IN  ProcessBatch(h2, Tail(idx_list), tp, holeMap, sep, vcf)

\* the rows of the polygons of the batch cleared instead of the columns
ClearColumns_Rows(mat, batch) ==
    [i \in 1..Len(mat) |-> [j \in 1..Len(mat) |->
        IF i \in batch THEN 0 ELSE mat[i][j]]]

\* line 133 for every polygon of the batch: relation_mat[:,i] = 0
ClearColumns(mat, batch) ==
    [i \in 1..Len(mat) |-> [j \in 1..Len(mat) |->
        IF j \in batch THEN 0 ELSE mat[i][j]]]

\* the flags left as they are
FlipColors_NoFlip(holeMap, color_modified) == holeMap

\* the flags of all colours inverted
FlipColors_All(holeMap, color_modified) == [k \in DOMAIN holeMap |-> ~ holeMap[k]]

\* lines 142-143
FlipColors(holeMap, color_modified) ==
    [k \in DOMAIN holeMap |->
        IF k \in color_modified THEN ~ holeMap[k] ELSE holeMap[k]]

\* bpy.ops.gpencil.stroke_arrange(direction='TOP'): the selected strokes move
\* to the top of the frame, keeping their order
stroke_arrange_top(strks, sel) ==
    SelectSeq2(strks, {s \in Range(strks) : ~ sel[s]})
        \o SelectSeq2(strks, {s \in Range(strks) : sel[s]})

\* line 123: the loop condition
LoopContinues(done, tp) == Cardinality(done) < Len(tp)

\* lines 30-49, and line 150 for the first frame
HoleImport ==
    /\ pc = "hole_import"
    /\ IF pyclipper_available
       THEN /\ pc' = IF Len(strokes) > 0 THEN "hole_frame" ELSE "done"
            /\ report' = report
       ELSE /\ pc' = "done"
            /\ report' = Append(report, MissingDependencyMsg)
    /\ UNCHANGED <<operator, pyclipper_available, frame_idx, hostVars, holeVars,
                   outsideHole>>

\* lines 100-122
HoleFrameBegin ==
    /\ pc = "hole_frame"
    /\ LET frame == strokes[frame_idx]
           tp == SelectSeq2(frame, {s \in Range(frame) : select[s]})
       IN  /\ select_map' = save_stroke_selection(strokes, select_index)
           /\ to_process' = tp
           /\ relation_mat' = BuildRelation(tp, inside, material_slots, material_index)
           /\ is_hole_map' =
                 [k \in {0} \cup (IF separate_colors
                                  THEN {vertex_color_fill[s] : s \in Range(tp)}
                                  ELSE {}) |-> FALSE]
           /\ processed' = {}
           /\ peel_log' = <<>>
           /\ pc' = IF LoopContinues({}, tp) THEN "hole_loop" ELSE "hole_frame_end"
    /\ UNCHANGED <<operator, pyclipper_available, report, frame_idx, hostVars,
                   separate_colors, rearrange, inside, material_idx_map,
                   hole_runs, outsideHole>>

\* lines 123-145: one iteration of the peeling loop
HolePeel ==
    /\ pc = "hole_loop"
    /\ LET idx_list == OutermostBatch(relation_mat, processed)
           batch == Range(idx_list)
           h == ProcessBatch([mi |-> material_index, slots |-> material_slots,
                              map |-> material_idx_map],
                             idx_list, to_process, is_hole_map,
                             separate_colors, vertex_color_fill)
           color_modified ==
               {ColorKey(separate_colors, vertex_color_fill, to_process[i]) : i \in batch}
           idx_list_strokes == [m \in 1..Len(idx_list) |-> to_process[idx_list[m]]]
           \* line 124 and line 134
           sel == [s \in DOMAIN select |-> s \in {to_process[i] : i \in batch}]
       IN  /\ processed' = processed \cup batch
           /\ relation_mat' = ClearColumns(relation_mat, batch)
           /\ select' = sel
           /\ select_index' = SetSelect(idx_list_strokes,
                                        [s \in DOMAIN select_index |-> 0], sel)
           /\ material_index' = h.mi
           /\ material_slots' = h.slots
           /\ material_idx_map' = h.map
           /\ strokes' = IF rearrange
                         THEN [strokes EXCEPT
                                  ![frame_idx] = stroke_arrange_top(@, sel)]
                         ELSE strokes
           /\ is_hole_map' = FlipColors(is_hole_map, color_modified)
           /\ peel_log' = Append(peel_log,
                                 [idx_list |-> idx_list, seen |-> is_hole_map,
                                  mi |-> material_index, slots |-> material_slots])
           /\ pc' = IF idx_list # <<>> /\ LoopContinues(processed \cup batch, to_process)
                    THEN "hole_loop" ELSE "hole_frame_end"
    /\ UNCHANGED <<operator, pyclipper_available, report, frame_idx,
                   vertex_color_fill, layer_lock, separate_colors,
                   rearrange, inside, to_process, select_map, hole_runs,
                   outsideHole>>

\* line 147, then lines 150-153: the next frame, or the return of execute
HoleFrameEnd ==
    /\ pc = "hole_frame_end"
    /\ select' = load_stroke_selection(strokes, select_map, select)
    /\ select_index' = SetSelect(FlattenFrames(strokes), select_index, select')
    /\ IF frame_idx < Len(strokes)
       THEN pc' = "hole_frame" /\ frame_idx' = frame_idx + 1
       ELSE pc' = "done" /\ frame_idx' = frame_idx
    /\ UNCHANGED <<operator, pyclipper_available, report, strokes,
                   material_index, vertex_color_fill, layer_lock,
                   material_slots, holeVars, outsideHole>>

(***************************************************************************)
(* The inputs of hole processing: a frame of n selected strokes, the       *)
(* results of is_poly_in_poly for every ordered pair, and the options.     *)
(***************************************************************************)
OffDiagonal(n) == {p \in (1..n) \X (1..n) : p[1] # p[2]}

\* every outcome of the n*(n-1) calls of is_poly_in_poly with at most
\* MaxPairs of them true
InsideRelations(n) ==
    {[i \in 1..n |-> [j \in 1..n |-> <<i, j>> \in S]] :
        S \in {T \in SUBSET OffDiagonal(n) : Cardinality(T) <= MaxPairs}}

\* the containment of n closed polygons whose outlines do not cross: a
\* forest, where par[i] is the polygon directly around i (0: none) and i
\* lies in each of its ancestors
RECURSIVE Ancestors(_, _, _)
Ancestors(par, i, fuel) ==
    IF par[i] = 0 \/ fuel = 0 THEN {}
    ELSE {par[i]} \cup Ancestors(par, par[i], fuel - 1)

NestingRelations(n) ==
    {[i \in 1..n |-> [j \in 1..n |-> j \in Ancestors(par, i, n)]] :
        par \in {q \in [1..n -> 0..n] : \A i \in 1..n : i \notin Ancestors(q, i, n)}}

HoleIdle ==
    /\ separate_colors = FALSE
    /\ rearrange = FALSE
    /\ inside = <<>>
    /\ to_process = <<>>
    /\ relation_mat = <<>>
    /\ is_hole_map = <<>>
    /\ processed = {}
    /\ material_idx_map = <<>>
    /\ peel_log = <<>>
    /\ hole_runs = 0

\* the variables of Boolean of Selected while another operator runs
BoolIdle ==
    /\ operation_type = "UNION"
    /\ stroke_inherited = "SUBJECT"
    /\ processing_seq = "ALL"
    /\ num_clips = 1
    /\ keep_subjects = FALSE
    /\ keep_clips = FALSE
    /\ stroke_info = <<>>
    /\ select_seq = <<>>
    /\ subject_set = {}
    /\ clip_set = {}
    /\ ref_stroke_mask = {}
    /\ generated_strokes = <<>>
    /\ pending = <<>>
    /\ clipper_log = <<>>

\* the scene while an operator of the stroke editor runs
SceneIdle ==
    /\ mode = "EDIT_GPENCIL"
    /\ meshes = <<>>
    /\ working_plane = "X-Z"

\* the variables of mesh generation while another operator runs
MeshIdle ==
    /\ resolution = 2
    /\ slope_style = "SPHERE"
    /\ offset_interval = 0
    /\ keep_original = TRUE
    /\ offset_result = <<>>
    /\ fill_result = <<>>
    /\ mesh_stroke_info = <<>>
    /\ mesh_names = <<>>
    /\ stroke_i = 0
    /\ contours = <<>>
    /\ vert_idx_list = <<>>
    /\ level_j = 0
    /\ verts_by_level = <<>>
    /\ edges_by_level = <<>>
    /\ edge_extruded = <<>>
    /\ faces = {}
    /\ face_verts = <<>>
    /\ bm_verts = <<>>

\* the variables of the projector while no call of it is followed
ProjIdle ==
    /\ proj_co = <<>>
    /\ proj_depth = <<>>
    /\ proj_scale = <<>>
    /\ proj_out = <<>>

\* the variables of stroke_to_poly while no call of it is followed
PolyIdle ==
    /\ stroke_points = <<>>
    /\ scale = FALSE
    /\ correct_orientation = FALSE
    /\ fixed_scale_factor = <<>>
    /\ orientation = <<>>
    /\ poly_list = <<>>
    /\ scale_factor = <<>>

\* the variables of offset selected while another operator runs
OffsetIdle ==
    /\ offset_amount = 0
    /\ multiframe_falloff = <<0, 1>>
    /\ end_type_mode = "ET_CLOSE"
    /\ offset_keep_original = FALSE
    /\ invert_holdout = TRUE
    /\ use_multiedit = FALSE
    /\ frame_current = 1
    /\ offset_j = 0

HoleStart ==
    /\ pc = "hole_import"
    /\ operator = "hole_processing"
    /\ pyclipper_available = TRUE
    /\ report = <<>>
    /\ frame_idx = 1
    /\ layer_lock = <<FALSE>>
    /\ material_slots = InitialSlots
    /\ to_process = <<>>
    /\ relation_mat = <<>>
    /\ is_hole_map = <<>>
    /\ processed = {}
    /\ material_idx_map = <<>>
    /\ select_map = <<>>
    /\ peel_log = <<>>
    /\ hole_runs = 0
    /\ BoolIdle
    /\ SceneIdle
    /\ MeshIdle
    /\ ProjIdle
    /\ PolyIdle

\* one frame of n selected strokes of any material, one fill colour,
\* separate_colors and rearrange off
InitHole ==
    /\ OffsetIdle
    /\ HoleStart
    /\ \E n \in 0..MaxPolys :
          /\ strokes = << [i \in 1..n |-> i] >>
          /\ select = [i \in 1..n |-> TRUE]
          /\ select_index = [i \in 1..n |-> i]
          /\ material_index \in [1..n -> 1..Len(InitialSlots)]
          /\ vertex_color_fill = [i \in 1..n |-> 1]
          /\ inside \in InsideRelations(n)
    /\ separate_colors = FALSE
    /\ rearrange = FALSE

NextHole == HoleImport \/ HoleFrameBegin \/ HolePeel \/ HoleFrameEnd

SpecHole == InitHole /\ [][NextHole]_vars

\* one frame of n selected strokes that nest without crossing, solid or
\* line-only, of two fill colours, separate_colors on or off
InitHoleColors ==
    /\ OffsetIdle
    /\ HoleStart
    /\ \E n \in 0..MaxPolys :
          /\ strokes = << [i \in 1..n |-> i] >>
          /\ select = [i \in 1..n |-> TRUE]
          /\ select_index = [i \in 1..n |-> i]
          /\ material_index \in [1..n -> 1..2]
          /\ vertex_color_fill \in [1..n -> Colors]
          /\ inside \in NestingRelations(n)
    /\ separate_colors \in BOOLEAN
    /\ rearrange = TRUE

SpecHoleColors == InitHoleColors /\ [][NextHole]_vars

(***************************************************************************)
(* Boolean of Selected (BoolSelectedOperator.execute).  A frame group is   *)
(* one frame of one layer; positions in a frame are counted from 1.        *)
(***************************************************************************)
MaxStrokes == 3
MaxClips == 2
MaxResults == 1

OperationTypes == {"UNION", "INTERSECTION", "DIFFERENCE", "XOR"}

\* s[:k] of Python
PyPrefix(s, k) ==
    IF k >= 0 THEN SubSeq(s, 1, Min({k, Len(s)}))
    ELSE SubSeq(s, 1, Max({Len(s) + k, 0}))

\* s[-k:] of Python
PySuffix(s, k) ==
    IF k > 0 THEN SubSeq(s, Max({Len(s) - k, 0}) + 1, Len(s))
    ELSE IF k = 0 THEN s
    ELSE SubSeq(s, Min({0 - k, Len(s)}) + 1, Len(s))

RECURSIVE InsertSorted(_, _, _)
InsertSorted(s, x, key) ==
    IF s = <<>> THEN <<x>>
    ELSE IF key[x] < key[Head(s)] THEN <<x>> \o s
         ELSE <<Head(s)>> \o InsertSorted(Tail(s), x, key)

RECURSIVE SortByKey(_, _)
\* list.sort(key = ...): a stable sort
SortByKey(s, key) ==
    IF s = <<>> THEN <<>>
    ELSE InsertSorted(SortByKey(SubSeq(s, 1, Len(s) - 1), key), s[Len(s)], key)

\* lines 484-491: the selected strokes of the frames of unlocked layers
CollectSelected(frames, f, lock, sel) ==
    IF lock[f] THEN <<>>
    ELSE SelectSeq([j \in 1..Len(frames[f]) |->
                       [stroke |-> frames[f][j], layer |-> f, index |-> j]],
                   LAMBDA info : sel[info.stroke])

\* line 491
SelectSeqMap(info, smap, f) == [k \in 1..Len(info) |-> smap[f][info[k].stroke]]

\* line 501, without the cap
TrueNumClips_NoCap(num, n) == num

\* line 501
TrueNumClips(num, n) == Min({num, n - 1})

\* line 496, with the test left out
TooFewShapes_Never(info) == FALSE

\* line 496
TooFewShapes(info) == Len(info) < 2

\* lines 502-503
SelectSeqOf(info, smap, f) ==
    SortByKey([k \in 1..Len(info) |-> k], SelectSeqMap(info, smap, f))

\* line 504
SubjectSetOf(seq, num) == Range(PyPrefix(seq, Len(seq) - TrueNumClips(num, Len(seq))))

\* line 505
ClipSetOf(seq, num) == Range(PySuffix(seq, TrueNumClips(num, Len(seq))))

\* lines 508-512, with no polygon masked out
RefStrokeMask_None(inherited, subjects, clips) == {}

\* lines 508-512
RefStrokeMask(inherited, subjects, clips) ==
    IF inherited = "SUBJECT" THEN clips
    ELSE IF inherited = "CLIP" THEN subjects
    ELSE {}

\* s with x inserted so that it becomes element number p
InsertAt(s, p, x) == SubSeq(s, 1, p - 1) \o <<x>> \o SubSeq(s, p, Len(s))

\* poly_to_stroke(result, stroke_info, ..., rearrange = True, ref_stroke_mask):
\* a new stroke that takes its attributes from the reference stroke
\* stroke_info[ref], which is not masked; it is placed right above the
\* reference in the reference's frame and is the only selected stroke
poly_to_stroke(b, ref) ==
    LET new_stroke == Len(b.select) + 1
        src == b.info[ref]
        new_index == src.index + 1
    IN  [b EXCEPT
            !.strokes[src.layer] = InsertAt(@, new_index, new_stroke),
            !.select = Append([s \in DOMAIN @ |-> FALSE], TRUE),
            !.select_index = Append([s \in DOMAIN @ |-> 0], 1),
            !.material_index = Append(@, @[src.stroke]),
            !.vertex_color_fill = Append(@, @[src.stroke]),
            !.new_stroke = new_stroke,
            !.new_index = new_index,
            !.new_layer_index = src.layer]

\* lines 527-529
UpdateIndex(info, new_index, new_layer_index) ==
    [k \in 1..Len(info) |->
        IF new_index <= info[k].index /\ new_layer_index = info[k].layer
        THEN [info[k] EXCEPT !.index = @ + 1]
        ELSE info[k]]

RECURSIVE generate_new_strokes(_, _)
\* lines 515-529: refs[m] is the reference poly_to_stroke takes for result m
generate_new_strokes(b, refs) ==
    IF refs = <<>> THEN b
    ELSE LET c == poly_to_stroke(b, Head(refs))
         IN  generate_new_strokes(
                 [c EXCEPT !.generated = Append(@, c.new_stroke),
                           !.info = UpdateIndex(@, c.new_index, c.new_layer_index)],
                 Tail(refs))

\* the host data and the locals generate_new_strokes works on
BoolState ==
    [strokes |-> strokes, select |-> select, select_index |-> select_index,
     material_index |-> material_index, vertex_color_fill |-> vertex_color_fill,
     info |-> stroke_info, generated |-> generated_strokes,
     new_stroke |-> 0, new_index |-> 0, new_layer_index |-> 0]

\* the elements of the set S in increasing order
RECURSIVE SetToSeq(_)
SetToSeq(S) == IF S = {} THEN <<>> ELSE <<Min(S)>> \o SetToSeq(S \ {Min(S)})

\* lines 557-561
DeletedStrokes(info, subjects, clips, keepS, keepC) ==
    {info[i].stroke : i \in {k \in 1..Len(info) :
        \/ ~ keepS /\ k \in subjects
        \/ ~ keepC /\ k \in clips}}

\* the next frame group of the loop of line 477, or the post-processing
BoolNextGroup ==
    IF frame_idx < Len(strokes)
    THEN pc' = "bool_group" /\ frame_idx' = frame_idx + 1
    ELSE pc' = "bool_post" /\ frame_idx' = frame_idx

\* lines 437-476
BoolImport ==
    /\ pc = "bool_import"
    /\ IF pyclipper_available
       THEN /\ pc' = IF Len(strokes) > 0 THEN "bool_group" ELSE "bool_post"
            /\ report' = report
            /\ select_map' = save_stroke_selection(strokes, select_index)
       ELSE /\ pc' = "done"
            /\ report' = Append(report, MissingDependencyMsg)
            /\ select_map' = select_map
    /\ generated_strokes' = <<>>
    /\ UNCHANGED <<operator, pyclipper_available, frame_idx, hostVars, boolOptions,
                   stroke_info, select_seq, subject_set, clip_set, ref_stroke_mask,
                   pending, clipper_log, outsideBool>>

\* lines 478-512
BoolGroupBegin ==
    /\ pc = "bool_group"
    /\ LET sel == load_stroke_selection(strokes, select_map, select)
           info == CollectSelected(strokes, frame_idx, layer_lock, sel)
           seq == SelectSeqOf(info, select_map, frame_idx)
       IN  /\ select' = sel
           /\ select_index' = SetSelect(FlattenFrames(strokes), select_index, sel)
           /\ stroke_info' = info
           /\ IF TooFewShapes(info)
              THEN /\ BoolNextGroup
                   /\ UNCHANGED <<select_seq, subject_set, clip_set,
                                  ref_stroke_mask, pending>>
              ELSE /\ select_seq' = seq
                   /\ subject_set' = SubjectSetOf(seq, num_clips)
                   /\ clip_set' = ClipSetOf(seq, num_clips)
                   /\ ref_stroke_mask' =
                         RefStrokeMask(stroke_inherited, subject_set', clip_set')
                   /\ pending' = IF processing_seq = "ALL" THEN <<>>
                                 ELSE SetToSeq(subject_set')
                   /\ pc' = IF processing_seq = "ALL" THEN "bool_all"
                            ELSE "bool_each"
                   /\ frame_idx' = frame_idx
    /\ UNCHANGED <<operator, pyclipper_available, report, strokes, material_index,
                   vertex_color_fill, layer_lock, material_slots, select_map,
                   boolOptions, generated_strokes, clipper_log, outsideBool>>

\* the effect of generate_new_strokes on the host and on the locals
BoolGenerate(mask, n) ==
    \E refs \in [1..n -> (1..Len(stroke_info)) \ mask] :
        LET b == generate_new_strokes(BoolState, refs)
        IN  /\ strokes' = b.strokes
            /\ select' = b.select
            /\ select_index' = b.select_index
            /\ material_index' = b.material_index
            /\ vertex_color_fill' = b.vertex_color_fill
            /\ stroke_info' = b.info
            /\ generated_strokes' = b.generated

\* the paths the clipper of line 442 holds: those of its last Execute, none
\* before the first
ClipperPaths ==
    IF clipper_log = <<>> THEN [subjects |-> {}, clips |-> {}]
    ELSE [subjects |-> clipper_log[Len(clipper_log)].subjects,
          clips |-> clipper_log[Len(clipper_log)].clips]

\* lines 534 and 549, with the paths left in the clipper
Clear_Keep(paths) == paths

\* lines 534 and 549: clipper.Clear()
Clear(paths) == [subjects |-> {}, clips |-> {}]

\* lines 535-539 and 550-552: AddPath as PT_SUBJECT for subj, as PT_CLIP for
\* clips
AddPaths(paths, subj, clips) ==
    [subjects |-> paths.subjects \cup subj, clips |-> paths.clips \cup clips]

\* lines 532-541: poly_results has n polygons
BoolExecuteAll ==
    /\ pc = "bool_all"
    /\ LET all == 1..Len(stroke_info)
           paths == AddPaths(Clear(ClipperPaths), all \cap subject_set,
                             all \ subject_set)
       IN  clipper_log' = Append(clipper_log,
                                 [op |-> operation_type,
                                  subjects |-> paths.subjects,
                                  clips |-> paths.clips])
    /\ \E n \in 0..MaxResults : BoolGenerate(ref_stroke_mask, n)
    /\ pc' = "bool_delete"
    /\ UNCHANGED <<operator, pyclipper_available, report, frame_idx, layer_lock,
                   material_slots, select_map, boolOptions, select_seq,
                   subject_set, clip_set, ref_stroke_mask, pending, outsideBool>>

\* lines 544-554: one iteration of the loop over subject_set
BoolExecuteEach ==
    /\ pc = "bool_each"
    /\ pending # <<>>
    /\ LET i == Head(pending)
           mask == IF stroke_inherited = "SUBJECT"
                   THEN Range(select_seq) \ {i}
                   ELSE ref_stroke_mask
           paths == AddPaths(Clear(ClipperPaths), {i}, clip_set)
       IN  /\ ref_stroke_mask' = mask
           /\ clipper_log' = Append(clipper_log,
                                    [op |-> operation_type,
                                     subjects |-> paths.subjects,
                                     clips |-> paths.clips])
           /\ \E n \in 0..MaxResults : BoolGenerate(mask, n)
    /\ pending' = Tail(pending)
    /\ pc' = IF Tail(pending) = <<>> THEN "bool_delete" ELSE "bool_each"
    /\ UNCHANGED <<operator, pyclipper_available, report, frame_idx, layer_lock,
                   material_slots, select_map, boolOptions, select_seq,
                   subject_set, clip_set, outsideBool>>

\* lines 557-561
BoolDelete ==
    /\ pc = "bool_delete"
    /\ LET gone == DeletedStrokes(stroke_info, subject_set, clip_set,
                                  keep_subjects, keep_clips)
       IN  strokes' = [f \in 1..Len(strokes) |->
                          SelectSeq2(strokes[f], Range(strokes[f]) \ gone)]
    /\ BoolNextGroup
    /\ UNCHANGED <<operator, pyclipper_available, report, select, select_index,
                   material_index, vertex_color_fill, layer_lock, material_slots,
                   select_map, boolVars, outsideBool>>

\* lines 564-568
BoolPost ==
    /\ pc = "bool_post"
    /\ select' = [s \in DOMAIN select |-> s \in Range(generated_strokes)]
    /\ select_index' = SetSelect(generated_strokes,
                                 [s \in DOMAIN select_index |-> 0], select')
    /\ pc' = "done"
    /\ UNCHANGED <<operator, pyclipper_available, report, frame_idx, strokes,
                   material_index, vertex_color_fill, layer_lock, material_slots,
                   select_map, boolVars, outsideBool>>

\* the ways to select some of n strokes one after the other: the strokes
\* selected m-th has select_index m, the others 0
SelectionOrders(n) ==
    {f \in [1..n -> 0..n] :
        \A i \in 1..n : f[i] > 0 =>
            /\ \A j \in 1..n : j # i => f[j] # f[i]
            /\ \A m \in 1..(f[i] - 1) : \E j \in 1..n : f[j] = m}

\* two frame groups that hold MaxStrokes strokes or fewer, of which any may
\* be selected, in any order; the layer of the first frame may be locked
InitBool ==
    /\ OffsetIdle
    /\ pc = "bool_import"
    /\ operator = "bool_selected"
    /\ pyclipper_available = TRUE
    /\ report = <<>>
    /\ frame_idx = 1
    /\ material_slots = InitialSlots
    /\ select_map = <<>>
    /\ HoleIdle
    /\ SceneIdle
    /\ MeshIdle
    /\ ProjIdle
    /\ PolyIdle
    /\ \E n \in 0..MaxStrokes, a \in 0..MaxStrokes :
          /\ a <= n
          /\ strokes = << [i \in 1..a |-> i], [i \in 1..(n - a) |-> a + i] >>
          /\ select_index \in SelectionOrders(n)
          /\ select = [i \in 1..n |-> select_index[i] > 0]
          /\ material_index = [i \in 1..n |-> 1]
          /\ vertex_color_fill = [i \in 1..n |-> 1]
    /\ layer_lock \in {<<FALSE, FALSE>>, <<TRUE, FALSE>>}
    /\ operation_type \in OperationTypes
    /\ stroke_inherited = "SUBJECT"
    /\ processing_seq \in {"ALL", "EACH"}
    /\ num_clips \in 1..MaxClips
    /\ keep_subjects \in BOOLEAN
    /\ keep_clips \in BOOLEAN
    /\ stroke_info = <<>>
    /\ select_seq = <<>>
    /\ subject_set = {}
    /\ clip_set = {}
    /\ ref_stroke_mask = {}
    /\ generated_strokes = <<>>
    /\ pending = <<>>
    /\ clipper_log = <<>>

NextBool ==
    \/ BoolImport
    \/ BoolGroupBegin
    \/ BoolExecuteAll
    \/ BoolExecuteEach
    \/ BoolDelete
    \/ BoolPost

SpecBool == InitBool /\ [][NextBool]_vars

(***************************************************************************)
(* Mesh generation by offsetting (MeshGenerationByOffsetting.execute).     *)
(* A polygon of a contour is given by its number of points, a vertex by    *)
(* its index in bm.verts, an edge by the pair of its vertices, a face by   *)
(* its number in order of creation.                                        *)
(***************************************************************************)
MaxMeshStrokes == 1
MaxResolution == 3
MaxLoops == 2
MaxFaces == 1
MaxFaceVerts == 5

SlopeStyles == {"LINEAR", "SPHERE", "STEP"}

\* line 125, without the duplication
Copies_One(style) == 1

\* line 125: 1 + int(self.slope_style=='STEP')
Copies(style) == IF style = "STEP" THEN 2 ELSE 1

\* line 123: the argument of clipper.Execute
OffsetDelta(interval, j) == 0 - interval * j

RECURSIVE NewIdxList(_, _)
\* lines 126-130: the index ranges of the polygons of one contour
NewIdxList(new_contour, vert_counter) ==
    IF new_contour = <<>> THEN <<>>
    ELSE <<  <<vert_counter, vert_counter + Head(new_contour)>>  >>
             \o NewIdxList(Tail(new_contour), vert_counter + Head(new_contour))

RECURSIVE AppendCopies(_, _, _)
\* lines 125-131
AppendCopies(st, new_contour, n) ==
    IF n = 0 THEN st
    ELSE AppendCopies(
             [contours |-> Append(st.contours, new_contour),
              vert_idx_list |-> Append(st.vert_idx_list,
                                       NewIdxList(new_contour, st.vert_counter)),
              vert_counter |-> st.vert_counter + SeqSum(new_contour)],
             new_contour, n - 1)

RECURSIVE CalculateOffsets(_, _, _, _, _, _)
\* lines 118-131: the loop over j in range(self.resolution)
CalculateOffsets(st, j, res, style, interval, result) ==
    IF j >= res THEN st
    ELSE CalculateOffsets(
             AppendCopies(st, result[OffsetDelta(interval, j)], Copies(style)),
             j + 1, res, style, interval, result)

\* lines 176-179: the fill operator that follows level j
FillKind(style, j) ==
    IF style = "STEP" /\ j % 2 = 1 THEN "edgenet_fill" ELSE "triangle_fill"

\* the faces a fill operator may create: triangles for triangle_fill, faces
\* of any number of vertices for edgenet_fill
FaceLists(kind) ==
    UNION {[1..n -> (IF kind = "triangle_fill" THEN {3} ELSE 3..MaxFaceVerts)] :
           n \in 0..MaxFaces}

\* line 187, with another limit
TooManyVerts_Five(n) == n > 5

\* line 187
TooManyVerts(n) == n > 4

\* lines 153-157: the vertices of level j
LevelVerts(idx) ==
    IF idx = <<>> THEN <<>>
    ELSE [v \in 1..(idx[Len(idx)][2] - idx[1][1]) |-> idx[1][1] + v - 1]

RECURSIVE LevelEdges(_)
\* lines 160-165: the edges of the polygons of level j
LevelEdges(idx) ==
    IF idx = <<>> THEN <<>>
    ELSE [v \in 1..(Head(idx)[2] - 1 - Head(idx)[1]) |->
             <<Head(idx)[1] + v - 1, Head(idx)[1] + v>>]
         \o << <<Head(idx)[1], Head(idx)[2] - 1>> >>
         \o LevelEdges(Tail(idx))

\* lines 168-173, with both ends of an edge on the level itself
ExtrudedEdges_SameLevel(style, j, verts) ==
    IF style = "STEP" /\ j % 2 > 0
    THEN [v \in 1..Len(verts[Len(verts)]) |->
             <<verts[Len(verts)][v], verts[Len(verts)][v]>>]
    ELSE <<>>

\* lines 168-173
ExtrudedEdges(style, j, verts) ==
    IF style = "STEP" /\ j % 2 > 0
    THEN [v \in 1..Len(verts[Len(verts)]) |->
             <<verts[Len(verts)][v], verts[Len(verts) - 1][v]>>]
    ELSE <<>>

RECURSIVE CollectAll(_, _, _, _)
\* lines 102-108: the selected strokes of the frames of the unlocked layers
CollectAll(frames, f, lock, sel) ==
    IF f > Len(frames) THEN <<>>
    ELSE CollectSelected(frames, f, lock, sel)
             \o CollectAll(frames, f + 1, lock, sel)

\* lines 84-87: the report is not followed by a return
MeshImport ==
    /\ pc = "mesh_import"
    /\ report' = IF pyclipper_available THEN report
                 ELSE Append(report, MissingDependencyMsg)
    /\ pc' = "mesh_configure"
    /\ UNCHANGED <<operator, pyclipper_available, frame_idx, hostVars, sceneVars,
                   meshVars, outsideMesh>>

\* lines 88-109: pyclipper.PyclipperOffset() raises when the name pyclipper
\* is not bound
MeshConfigure ==
    /\ pc = "mesh_configure"
    /\ IF pyclipper_available
       THEN LET info == CollectAll(strokes, 1, layer_lock, select)
            IN  /\ mesh_stroke_info' = info
                /\ mesh_names' = [k \in 1..Len(info) |->
                                     <<"Offset", info[k].layer, info[k].index>>]
                /\ stroke_i' = 1
                /\ pc' = IF Len(info) > 0 THEN "mesh_offsets" ELSE "mesh_delete"
       ELSE /\ pc' = "raised"
            /\ UNCHANGED <<mesh_stroke_info, mesh_names, stroke_i>>
    /\ UNCHANGED <<operator, pyclipper_available, report, frame_idx, hostVars,
                   sceneVars, meshOptions,
                   bm_verts, contours, vert_idx_list, level_j,
                   verts_by_level, edges_by_level, edge_extruded, faces,
                   face_verts, outsideMesh>>

\* lines 116-138
MeshOffsets ==
    /\ pc = "mesh_offsets"
    /\ LET st == CalculateOffsets([contours |-> <<>>, vert_idx_list |-> <<>>,
                                   vert_counter |-> 0],
                                  0, resolution, slope_style, offset_interval,
                                  offset_result)
       IN  /\ contours' = st.contours
           /\ vert_idx_list' = st.vert_idx_list
    /\ level_j' = 0
    /\ verts_by_level' = <<>>
    /\ edges_by_level' = <<>>
    /\ edge_extruded' = <<>>
    /\ faces' = {}
    /\ face_verts' = <<>>
    /\ pc' = IF Len(contours') > 0 THEN "mesh_level" ELSE "mesh_cap"
    /\ UNCHANGED <<operator, pyclipper_available, report, frame_idx, hostVars,
                   sceneVars, meshOptions,
                   bm_verts, mesh_stroke_info, mesh_names, stroke_i,
                   outsideMesh>>

\* the faces of bm after a fill operator has created the faces new
AddFaces(new) ==
    /\ face_verts' = face_verts \o new
    /\ faces' = faces \cup {Len(face_verts) + k : k \in 1..Len(new)}

\* lines 140-180: one iteration of the loop over the levels
MeshLevel ==
    /\ pc = "mesh_level"
    /\ LET j == level_j
           idx == vert_idx_list[j + 1]
           verts == Append(verts_by_level, LevelVerts(idx))
       IN  /\ verts_by_level' = verts
           /\ edges_by_level' = Append(edges_by_level, LevelEdges(idx))
           /\ edge_extruded' = ExtrudedEdges(slope_style, j, verts)
           /\ IF j > 0 THEN AddFaces(fill_result[j])
                       ELSE UNCHANGED <<faces, face_verts>>
           /\ level_j' = j + 1
           /\ pc' = IF j + 1 < Len(contours) THEN "mesh_level" ELSE "mesh_cap"
    /\ UNCHANGED <<operator, pyclipper_available, report, frame_idx, hostVars,
                   sceneVars, meshOptions,
                   bm_verts, mesh_stroke_info, mesh_names, stroke_i,
                   contours, vert_idx_list, outsideMesh>>

\* lines 181-182
MeshCap ==
    /\ pc = "mesh_cap"
    /\ AddFaces(fill_result[Len(contours)])
    /\ pc' = "mesh_cleanup"
    /\ UNCHANGED <<operator, pyclipper_available, report, frame_idx, hostVars,
                   sceneVars, meshOptions,
                   bm_verts, mesh_stroke_info, mesh_names, stroke_i,
                   contours, vert_idx_list, level_j, verts_by_level,
                   edges_by_level, edge_extruded, outsideMesh>>

\* lines 185-190
MeshCleanup ==
    /\ pc = "mesh_cleanup"
    /\ LET to_remove == {face \in faces : TooManyVerts(face_verts[face])}
       IN  faces' = faces \ to_remove
    /\ pc' = "mesh_object"
    /\ UNCHANGED <<operator, pyclipper_available, report, frame_idx, hostVars,
                   sceneVars, meshOptions,
                   bm_verts, mesh_stroke_info, mesh_names, stroke_i,
                   contours, vert_idx_list, level_j, verts_by_level,
                   edges_by_level, edge_extruded, face_verts, outsideMesh>>

\* lines 193-213, and the next stroke of the loop of line 215
MeshObject ==
    /\ pc = "mesh_object"
    /\ meshes' = Append(meshes, mesh_names[stroke_i])
    /\ stroke_i' = stroke_i + 1
    /\ pc' = IF stroke_i < Len(mesh_stroke_info) THEN "mesh_offsets"
             ELSE "mesh_delete"
    /\ UNCHANGED <<operator, pyclipper_available, report, frame_idx, hostVars,
                   mode, working_plane, meshOptions,
                   bm_verts, mesh_stroke_info, mesh_names,
                   contours, vert_idx_list, level_j, verts_by_level,
                   edges_by_level, edge_extruded, faces, face_verts, outsideMesh>>

\* lines 219-227
MeshDelete ==
    /\ pc = "mesh_delete"
    /\ strokes' = IF keep_original THEN strokes
                  ELSE [f \in 1..Len(strokes) |->
                           SelectSeq2(strokes[f],
                               Range(strokes[f])
                                   \ {mesh_stroke_info[k].stroke :
                                          k \in 1..Len(mesh_stroke_info)})]
    /\ pc' = "done"
    /\ UNCHANGED <<operator, pyclipper_available, report, frame_idx, select,
                   select_index, material_index, vertex_color_fill, layer_lock,
                   material_slots, sceneVars, meshVars, outsideMesh>>

\* the contour sets an offset may return: no polygon, or polygons of three,
\* four, ... points
ContourSets == {[m \in 1..k |-> 2 + m] : k \in 0..MaxLoops}

\* the fill operators that follow the levels 1, 2, ... and the cap of line 181
NumFills(res, style) == res * Copies(style)

\* one frame of selected strokes of the same outline
MeshStart ==
    /\ pc = "mesh_import"
    /\ operator = "mesh_generation"
    /\ pyclipper_available = TRUE
    /\ report = <<>>
    /\ frame_idx = 1
    /\ layer_lock = <<FALSE>>
    /\ material_slots = InitialSlots
    /\ select_map = <<>>
    /\ HoleIdle
    /\ BoolIdle
    /\ SceneIdle
    /\ ProjIdle
    /\ PolyIdle
    /\ mesh_stroke_info = <<>>
    /\ mesh_names = <<>>
    /\ stroke_i = 0
    /\ contours = <<>>
    /\ vert_idx_list = <<>>
    /\ level_j = 0
    /\ verts_by_level = <<>>
    /\ edges_by_level = <<>>
    /\ edge_extruded = <<>>
    /\ faces = {}
    /\ face_verts = <<>>
    /\ bm_verts = <<>>

\* any resolution, slope style and sign of the offset, any result of the
\* offsets; every fill operator creates one triangle, or none does
InitMesh ==
    /\ OffsetIdle
    /\ MeshStart
    /\ \E n \in 0..MaxMeshStrokes :
          /\ strokes = << [i \in 1..n |-> i] >>
          /\ select \in [1..n -> BOOLEAN]
          /\ select_index = [i \in 1..n |-> IF select[i] THEN i ELSE 0]
          /\ material_index = [i \in 1..n |-> 1]
          /\ vertex_color_fill = [i \in 1..n |-> 1]
    /\ resolution \in 2..MaxResolution
    /\ slope_style \in SlopeStyles
    /\ offset_interval \in {-1, 0, 1}
    /\ keep_original \in BOOLEAN
    /\ offset_result \in
          [{OffsetDelta(offset_interval, j) : j \in 0..(resolution - 1)}
              -> ContourSets]
    /\ \E new \in {<<>>, <<3>>} :
          fill_result = [k \in 1..NumFills(resolution, slope_style) |-> new]

NextMesh ==
    \/ MeshImport
    \/ MeshConfigure
    \/ MeshOffsets
    \/ MeshLevel
    \/ MeshCap
    \/ MeshCleanup
    \/ MeshObject
    \/ MeshDelete

SpecMesh == InitMesh /\ [][NextMesh]_vars

\* one selected stroke, the least resolution, every level one triangle; the
\* fill operators create any faces
InitMeshFaces ==
    /\ OffsetIdle
    /\ MeshStart
    /\ strokes = << <<1>> >>
    /\ select = <<TRUE>>
    /\ select_index = <<1>>
    /\ material_index = <<1>>
    /\ vertex_color_fill = <<1>>
    /\ resolution = 2
    /\ slope_style \in SlopeStyles
    /\ offset_interval = 1
    /\ keep_original \in BOOLEAN
    /\ offset_result = [d \in {OffsetDelta(1, j) : j \in 0..1} |-> <<3>>]
    /\ fill_result \in
          {f \in [1..NumFills(2, slope_style) -> FaceLists("edgenet_fill")] :
              \A k \in DOMAIN f :
                  f[k] \in FaceLists(IF k < NumFills(2, slope_style)
                                     THEN FillKind(slope_style, k)
                                     ELSE "triangle_fill")}

SpecMeshFaces == InitMeshFaces /\ [][NextMesh]_vars

(***************************************************************************)
(* The dependency check at the entry of the five operators.                *)
(***************************************************************************)
\* OffsetSelectedOperator.execute, lines 250-293
OffsetImport ==
    /\ pc = "offset_import"
    /\ IF pyclipper_available
       THEN /\ pc' = "offset_frames"
            /\ report' = report
            /\ select_map' = save_stroke_selection(strokes, select_index)
       ELSE /\ pc' = "done"
            /\ report' = Append(report, MissingDependencyMsg)
            /\ select_map' = select_map
    /\ UNCHANGED <<operator, pyclipper_available, frame_idx, hostVars, holeLocals,
                   outsideHole>>

\* BoolLastOperator.execute, lines 604-605
BoolLastEnter ==
    /\ pc = "boollast_enter"
    /\ mode' = "EDIT_GPENCIL"
    /\ select' = [s \in DOMAIN select |-> FALSE]
    /\ select_index' = [s \in DOMAIN select_index |-> 0]
    /\ pc' = "boollast_import"
    /\ UNCHANGED <<operator, pyclipper_available, report, frame_idx, strokes,
                   material_index, vertex_color_fill, layer_lock, material_slots,
                   meshes, working_plane, holeVars, boolVars, meshVars, projVars,
                   polyVars, offsetVars>>

\* BoolLastOperator.execute, lines 608-612
BoolLastImport ==
    /\ pc = "boollast_import"
    /\ IF pyclipper_available
       THEN pc' = "boollast_layer" /\ report' = report
       ELSE pc' = "done" /\ report' = Append(report, MissingDependencyMsg)
    /\ UNCHANGED <<operator, pyclipper_available, frame_idx, hostVars, holeVars,
                   outsideHole>>

\* the first statement of execute of each operator
EntryPoint ==
    [hole_processing |-> "hole_import",
     offset_selected |-> "offset_import",
     bool_selected   |-> "bool_import",
     bool_last       |-> "boollast_enter",
     mesh_generation |-> "mesh_import"]

\* any of the five operators is called, in draw mode or in edit mode, on a
\* frame of strokes of which any are selected, with or without pyclipper
InitEntry ==
    /\ OffsetIdle
    /\ operator \in DOMAIN EntryPoint
    /\ pc = EntryPoint[operator]
    /\ pyclipper_available \in BOOLEAN
    /\ report = <<>>
    /\ frame_idx = 1
    /\ layer_lock = <<FALSE>>
    /\ material_slots = InitialSlots
    /\ select_map = <<>>
    /\ \E n \in 0..MaxStrokes :
          /\ strokes = << [i \in 1..n |-> i] >>
          /\ select_index \in SelectionOrders(n)
          /\ select = [i \in 1..n |-> select_index[i] > 0]
          /\ material_index = [i \in 1..n |-> 1]
          /\ vertex_color_fill = [i \in 1..n |-> 1]
    /\ mode \in {"PAINT_GPENCIL", "EDIT_GPENCIL"}
    /\ meshes = <<>>
    /\ working_plane = "X-Z"
    /\ HoleIdle
    /\ BoolIdle
    /\ MeshIdle
    /\ ProjIdle
    /\ PolyIdle

NextEntry ==
    \/ HoleImport
    \/ OffsetImport
    \/ BoolImport
    \/ BoolLastEnter
    \/ BoolLastImport
    \/ MeshImport
    \/ MeshConfigure

SpecEntry == InitEntry /\ [][NextEntry]_vars

(***************************************************************************)
(* Numbers.  A coordinate, a depth or a scale factor is a fraction         *)
(* <<numerator, denominator>> in lowest terms with a positive denominator, *)
(* so that the division co / scale_factor is exact.                        *)
(***************************************************************************)
Abs(x) == IF x < 0 THEN 0 - x ELSE x

RECURSIVE GCD(_, _)
GCD(a, b) == IF b = 0 THEN a ELSE GCD(b, a % b)

RNorm(n, d) ==
    LET g == GCD(Abs(n), Abs(d))
    IN  IF d < 0 THEN <<(0 - n) \div g, (0 - d) \div g>> ELSE <<n \div g, d \div g>>

RInt(i) == <<i, 1>>
RNeg(a) == <<0 - a[1], a[2]>>
RMul(a, b) == RNorm(a[1] * b[1], a[2] * b[2])
RDiv(a, b) == RNorm(a[1] * b[2], a[2] * b[1])
RSub(a, b) == RNorm(a[1] * b[2] - b[1] * a[2], a[2] * b[2])
RLess(a, b) == a[1] * b[2] < b[1] * a[2]
RMin(a, b) == IF RLess(b, a) THEN b ELSE a
RMax(a, b) == IF RLess(a, b) THEN b ELSE a

(***************************************************************************)
(* The coordinate projector (utils.py).  plane is                          *)
(* scene.nijigp_working_plane; a 3D point is <<x, y, z>>.                  *)
(***************************************************************************)
MaxCoord == 1
MaxScale == 2

Planes == {"X-Z", "Y-Z", "X-Y"}

\* vec3_to_vec2 without the change of sign
vec3_to_vec2_NoFlip(plane, co) ==
    IF plane = "X-Z" THEN <<co[1], co[3]>>
    ELSE IF plane = "Y-Z" THEN <<co[2], co[3]>>
    ELSE <<co[1], co[2]>>

vec3_to_vec2(plane, co) ==
    IF plane = "X-Z" THEN <<co[1], RNeg(co[3])>>
    ELSE IF plane = "Y-Z" THEN <<co[2], RNeg(co[3])>>
    ELSE <<co[1], RNeg(co[2])>>

vec2_to_vec3(plane, co, depth, factor) ==
    IF plane = "X-Z"
    THEN <<RDiv(co[1], factor), RNeg(depth), RNeg(RDiv(co[2], factor))>>
    ELSE IF plane = "Y-Z"
    THEN <<depth, RDiv(co[1], factor), RNeg(RDiv(co[2], factor))>>
    ELSE <<RDiv(co[1], factor), RNeg(RDiv(co[2], factor)), depth>>

vec3_to_depth(plane, co) ==
    IF plane = "X-Z" THEN RNeg(co[2])
    ELSE IF plane = "Y-Z" THEN co[1]
    ELSE co[3]

get_depth_direction(plane) ==
    IF plane = "X-Z" THEN <<RInt(0), RInt(-1), RInt(0)>>
    ELSE IF plane = "Y-Z" THEN <<RInt(1), RInt(0), RInt(0)>>
    ELSE <<RInt(0), RInt(0), RInt(1)>>

\* co * factor for a 2D point
Scaled(co, factor) == <<RMul(co[1], factor), RMul(co[2], factor)>>

\* the calls from 2D to 3D: of the scaled point, of the point itself, and
\* of the origin with depth 1 and the default scale factor 1.0
ProjInverse ==
    /\ pc = "proj_inverse"
    /\ proj_out' =
          [scaled3 |-> vec2_to_vec3(working_plane, Scaled(proj_co, proj_scale),
                                    proj_depth, proj_scale),
           plain3  |-> vec2_to_vec3(working_plane, proj_co, proj_depth, proj_scale),
           unit3   |-> vec2_to_vec3(working_plane, <<RInt(0), RInt(0)>>,
                                    RInt(1), RInt(1))]
    /\ pc' = "proj_forward"
    /\ UNCHANGED <<operator, pyclipper_available, report, frame_idx, hostVars,
                   holeVars, boolVars, sceneVars, meshVars, proj_co, proj_depth,
                   proj_scale, polyVars, offsetVars>>

\* the calls from 3D to 2D and to the depth, and get_depth_direction
ProjForward ==
    /\ pc = "proj_forward"
    /\ proj_out' =
          [scaled3   |-> proj_out.scaled3,
           plain3    |-> proj_out.plain3,
           unit3     |-> proj_out.unit3,
           back2     |-> vec3_to_vec2(working_plane, proj_out.scaled3),
           depth     |-> vec3_to_depth(working_plane, proj_out.plain3),
           direction |-> get_depth_direction(working_plane)]
    /\ pc' = "done"
    /\ UNCHANGED <<operator, pyclipper_available, report, frame_idx, hostVars,
                   holeVars, boolVars, sceneVars, meshVars, proj_co, proj_depth,
                   proj_scale, polyVars, offsetVars>>

\* a scene without strokes
NoStrokes ==
    /\ strokes = << <<>> >>
    /\ select = <<>>
    /\ select_index = <<>>
    /\ material_index = <<>>
    /\ vertex_color_fill = <<>>
    /\ layer_lock = <<FALSE>>
    /\ material_slots = InitialSlots
    /\ frame_idx = 1
    /\ select_map = <<>>
    /\ report = <<>>
    /\ pyclipper_available = TRUE
    /\ mode = "EDIT_GPENCIL"
    /\ meshes = <<>>

ProjCoords == {RInt(i) : i \in (0 - MaxCoord)..MaxCoord}

ProjScales == {RNorm(a, b) : a \in 1..MaxScale, b \in 1..MaxScale}

\* any working plane, 2D point, depth and positive scale factor
InitProj ==
    /\ OffsetIdle
    /\ pc = "proj_inverse"
    /\ operator = "projector"
    /\ NoStrokes
    /\ HoleIdle
    /\ BoolIdle
    /\ MeshIdle
    /\ PolyIdle
    /\ working_plane \in Planes
    /\ proj_co \in ProjCoords \X ProjCoords
    /\ proj_depth \in ProjCoords
    /\ proj_scale \in ProjScales
    /\ proj_out = <<>>

NextProj == ProjInverse \/ ProjForward

SpecProj == InitProj /\ [][NextProj]_vars

(***************************************************************************)
(* The polygon converter (utils.py, stroke_to_poly).  None is <<>>.        *)
(***************************************************************************)
MaxPoints == 2

SCALE_CONSTANT == 8192

None == <<>>

\* the truth value of a scale factor in "if scale_factor" and
\* "not scale_factor": None and zero are false
Truthy(x) == x # None /\ x[1] # 0

\* lines 270-278: the 2D points of the strokes
ProjectStrokes(plane, pts) ==
    [k \in 1..Len(pts) |->
        [p \in 1..Len(pts[k]) |-> vec3_to_vec2(plane, pts[k][p])]]

\* all the points of a list of polygons
AllPoints(polys) == UNION {Range(polys[k]) : k \in 1..Len(polys)}

RECURSIVE RMinOf(_)
RMinOf(S) ==
    LET x == CHOOSE y \in S : TRUE
    IN  IF S = {x} THEN x ELSE RMin(x, RMinOf(S \ {x}))

RECURSIVE RMaxOf(_)
RMaxOf(S) ==
    LET x == CHOOSE y \in S : TRUE
    IN  IF S = {x} THEN x ELSE RMax(x, RMaxOf(S \ {x}))

\* lines 281-282, for a list of polygons that has a point
PolyW(polys) ==
    RSub(RMaxOf({co[1] : co \in AllPoints(polys)}),
         RMinOf({co[1] : co \in AllPoints(polys)}))

PolyH(polys) ==
    RSub(RMaxOf({co[2] : co \in AllPoints(polys)}),
         RMinOf({co[2] : co \in AllPoints(polys)}))

\* math.isclose(x, 0) with the default tolerances: rel_tol * |x| >= |x|
IsCloseToZero(x) == x[1] = 0

\* lines 284-291, without the limit SCALE_CONSTANT of the divisor
ComputeScale_NoCap(polys) ==
    IF AllPoints(polys) = {} THEN RInt(0)
    ELSE LET W == PolyW(polys)
             H == PolyH(polys)
         IN  IF IsCloseToZero(W) /\ IsCloseToZero(H) THEN RInt(1)
             ELSE IF IsCloseToZero(W) THEN RDiv(RInt(SCALE_CONSTANT), H)
             ELSE IF IsCloseToZero(H) THEN RDiv(RInt(SCALE_CONSTANT), W)
             ELSE RDiv(RInt(SCALE_CONSTANT), RMin(W, H))

\* lines 280-291.  Without any point the bounds stay at +inf and -inf, both
\* extents are -inf and the quotient is -0.0
ComputeScale(polys) ==
    IF AllPoints(polys) = {} THEN RInt(0)
    ELSE LET W == PolyW(polys)
             H == PolyH(polys)
             C == RInt(SCALE_CONSTANT)
         IN  IF IsCloseToZero(W) /\ IsCloseToZero(H) THEN RInt(1)
             ELSE IF IsCloseToZero(W) THEN RDiv(C, RMin(H, C))
             ELSE IF IsCloseToZero(H) THEN RDiv(C, RMin(W, C))
             ELSE RDiv(C, RMin(RMin(W, H), C))

\* lines 293-297
ApplyScale(polys, factor) ==
    IF Truthy(factor)
    THEN [k \in 1..Len(polys) |->
             [p \in 1..Len(polys[k]) |-> Scaled(polys[k][p], factor)]]
    ELSE polys

Reverse(s) == [p \in 1..Len(s) |-> s[Len(s) + 1 - p]]

\* one term of the sum of Clipper's Area: (X[j] + X[i]) * (Y[j] - Y[i]), the
\* point j being the one before the point i on the closed path
AreaTerm(path, i) ==
    LET j == IF i = 1 THEN Len(path) ELSE i - 1
    IN  RMul(RSub(path[j][1], RNeg(path[i][1])), RSub(path[j][2], path[i][2]))

\* the sum of the terms of the points i..Len(path), as a fraction that is
\* not reduced
RECURSIVE AreaSum(_, _)
AreaSum(path, i) ==
    IF i > Len(path) THEN <<0, 1>>
    ELSE LET rest == AreaSum(path, i + 1)
             term == AreaTerm(path, i)
         IN  <<term[1] * rest[2] + rest[1] * term[2], term[2] * rest[2]>>

\* Clipper's Area: -a * 0.5 for the sum a, 0 for a path of fewer than 3
\* points
Area(path) ==
    IF Len(path) < 3 THEN RInt(0)
    ELSE LET a == AreaSum(path, 1)
         IN  RNorm(0 - a[1], 2 * a[2])

\* an orientation test that is false for a path without area
Orientation_Strict(path) == RLess(RInt(0), Area(path))

\* pyclipper.Orientation(path): Area(path) >= 0
Orientation(path) == ~ RLess(Area(path), RInt(0))

\* what line 304 reads for every polygon of a list
Orientations(polys) == [k \in 1..Len(polys) |-> Orientation(polys[k])]

\* lines 301-305
CorrectOrientation(polys, correct, orient) ==
    IF correct
    THEN [k \in 1..Len(polys) |->
             IF orient[k] THEN polys[k] ELSE Reverse(polys[k])]
    ELSE polys

\* stroke_to_poly(stroke_list, scale, correct_orientation, scale_factor)
PolyConvert ==
    /\ pc = "poly_convert"
    /\ LET polys == ProjectStrokes(working_plane, stroke_points)
           factor == IF scale /\ ~ Truthy(fixed_scale_factor)
                     THEN ComputeScale(polys)
                     ELSE fixed_scale_factor
           scaled == ApplyScale(polys, factor)
       IN  /\ scale_factor' = factor
           /\ orientation' = IF correct_orientation THEN Orientations(scaled)
                                                    ELSE orientation
           /\ poly_list' = CorrectOrientation(scaled, correct_orientation,
                                              orientation')
    /\ pc' = "done"
    /\ UNCHANGED <<operator, pyclipper_available, report, frame_idx, hostVars,
                   holeVars, boolVars, sceneVars, meshVars, projVars, polyArgs,
                   offsetVars>>

\* the coordinates of the points of the strokes
PolyCoords == {RInt(0), RInt(1), RInt(2 * SCALE_CONSTANT)}

\* the points of the working plane with such coordinates
PlanePoints(plane) ==
    {vec2_to_vec3(plane, <<a, b>>, RInt(0), RInt(1)) : a, b \in PolyCoords}

\* the sequence pts cut into strokes after the points of the set cuts
RECURSIVE CutStrokes(_, _, _)
CutStrokes(pts, cuts, p) ==
    IF p > Len(pts) THEN <<>>
    ELSE LET rest == CutStrokes(pts, cuts, p + 1)
         IN  IF p = Len(pts) \/ p \in cuts
             THEN << <<pts[p]>> >> \o rest
             ELSE << <<pts[p]>> \o Head(rest) >> \o Tail(rest)

\* strokes of MaxPoints points or fewer in all, in any working plane, and
\* any arguments of stroke_to_poly; the orientation of strokes that enclose
\* an area is followed from InitOrient, where the coordinates are small
InitPoly ==
    /\ OffsetIdle
    /\ pc = "poly_convert"
    /\ operator = "stroke_to_poly"
    /\ NoStrokes
    /\ HoleIdle
    /\ BoolIdle
    /\ MeshIdle
    /\ ProjIdle
    /\ working_plane \in Planes
    /\ \E m \in 0..MaxPoints :
          \E pts \in [1..m -> PlanePoints(working_plane)] :
              \E cuts \in SUBSET (1..(m - 1)) :
                  stroke_points = CutStrokes(pts, cuts, 1)
    /\ scale \in BOOLEAN
    /\ fixed_scale_factor \in {None, RInt(2)}
    /\ correct_orientation \in
          IF \A k \in DOMAIN stroke_points : Len(stroke_points[k]) < 3
          THEN BOOLEAN ELSE {FALSE}
    /\ orientation = <<>>
    /\ poly_list = <<>>
    /\ scale_factor = None

NextPoly == PolyConvert

SpecPoly == InitPoly /\ [][NextPoly]_vars

(***************************************************************************)
(* pyclipper.Orientation, and the orientation pass of stroke_to_poly made  *)
(* a second time on the polygons it returned.                              *)
(***************************************************************************)
MaxRingPoints == 3

\* lines 301-305 once more, on the list that stroke_to_poly returned
PolyCorrectAgain ==
    /\ pc = "done"
    /\ operator = "orientation"
    /\ poly_list' = CorrectOrientation(poly_list, correct_orientation,
                                       Orientations(poly_list))
    /\ pc' = "corrected_again"
    /\ UNCHANGED <<operator, pyclipper_available, report, frame_idx, hostVars,
                   holeVars, boolVars, sceneVars, meshVars, projVars, polyArgs,
                   orientation, scale_factor, offsetVars>>

\* the points of a ring: a grid of three columns and two rows of the
\* working plane
RingPoints(plane) ==
    {vec2_to_vec3(plane, <<RInt(a), RInt(b)>>, RInt(0), RInt(1)) :
        a \in 0..2, b \in 0..1}

\* what stroke_to_poly holds in poly_list when it reaches line 301
BeforeCorrection ==
    LET polys == ProjectStrokes(working_plane, stroke_points)
    IN  ApplyScale(polys, IF scale /\ ~ Truthy(fixed_scale_factor)
                          THEN ComputeScale(polys)
                          ELSE fixed_scale_factor)

\* one stroke of MaxRingPoints points or fewer, alone or followed by the
\* stroke of the same points in the opposite order
InitOrient ==
    /\ OffsetIdle
    /\ pc = "poly_convert"
    /\ operator = "orientation"
    /\ NoStrokes
    /\ HoleIdle
    /\ BoolIdle
    /\ MeshIdle
    /\ ProjIdle
    /\ working_plane \in Planes
    /\ \E m \in 0..MaxRingPoints :
          \E pts \in [1..m -> RingPoints(working_plane)] :
              stroke_points \in {<<pts>>, <<pts, Reverse(pts)>>}
    /\ scale \in BOOLEAN
    /\ fixed_scale_factor = None
    /\ correct_orientation \in BOOLEAN
    /\ orientation = <<>>
    /\ poly_list = <<>>
    /\ scale_factor = None

NextOrient ==
    \/ PolyConvert
    \/ PolyCorrectAgain

SpecOrient == InitOrient /\ [][NextOrient]_vars

(***************************************************************************)
(* Offset selected (OffsetSelectedOperator.execute).  The frame of layer f *)
(* is strokes[f] and has the frame number f.  What the clipper returns for *)
(* an offset is an input: the number of polygons of the result.  The       *)
(* colour factors keep their default 0, so that the colours of the new     *)
(* strokes are the ones they were created with.                            *)
(***************************************************************************)
MaxOffsetStrokes == 2

EndTypeModes == {"ET_CLOSE", "ET_OPEN", "ET_CLOSE_CORNER"}

\* frame.frame_number of the frame of layer f
FrameNumber(f) == f

\* lines 314-318
InvertOffset(stroke) ==
    IF invert_holdout /\ is_stroke_hole(material_slots, material_index[stroke])
    THEN -1 ELSE 1

\* lines 321-324, without the max(0, ...) of line 324
FalloffFactor_NoClamp(f) ==
    IF use_multiedit
    THEN RSub(RInt(1), RMul(RInt(Abs(frame_current - FrameNumber(f))),
                            multiframe_falloff))
    ELSE RInt(1)

\* lines 321-324
FalloffFactor(f) ==
    IF use_multiedit
    THEN RMax(RInt(0),
              RSub(RInt(1), RMul(RInt(Abs(frame_current - FrameNumber(f))),
                                 multiframe_falloff)))
    ELSE RInt(1)

\* line 330: offset_amount * invert_offset * scale_factor * falloff_factor
OffsetDistance(stroke, f) ==
    RMul(RMul(RInt(offset_amount * InvertOffset(stroke)), scale_factor),
         FalloffFactor(f))

\* line 336, with the distance of line 330 once more
BackwardDistance_Same(stroke, f) == OffsetDistance(stroke, f)

\* line 336: -offset_amount * invert_offset * scale_factor * falloff_factor
BackwardDistance(stroke, f) ==
    RMul(RMul(RInt((0 - offset_amount) * InvertOffset(stroke)), scale_factor),
         FalloffFactor(f))

\* line 339
ArrangeOffset(stroke) == offset_amount * InvertOffset(stroke) > 0

\* lines 327-336: the calls of clipper.Execute for one stroke, the first one
\* being call number k of the run; n1 and n2 are the numbers of polygons of
\* their results
ExecuteCalls(stroke, f, k, n1, n2) ==
    LET forward == [frame |-> f, input |-> <<"stroke", stroke>>,
                    delta |-> OffsetDistance(stroke, f), results |-> n1]
        backward == [frame |-> f, input |-> <<"results", k>>,
                     delta |-> BackwardDistance(stroke, f), results |-> n2]
    IN  IF end_type_mode = "ET_CLOSE_CORNER" THEN <<forward, backward>>
        ELSE <<forward>>

\* poly_to_stroke(result, [stroke_info[ref]], ..., rearrange = True,
\* arrange_offset): the new stroke is created on top of the frame of its
\* reference and moved down to the place right above the reference or, with
\* arrange_offset, to the place of the reference, which then lies above it;
\* it is the only selected stroke
poly_to_stroke_arranged(b, ref, arrange_offset) ==
    LET new_stroke == Len(b.select) + 1
        src == b.info[ref]
        new_index == IF arrange_offset THEN src.index ELSE src.index + 1
        top == Len(b.strokes[src.layer]) + 1
    IN  [b EXCEPT
            !.strokes[src.layer] = InsertAt(@, Min({new_index, top}), new_stroke),
            !.select = Append([s \in DOMAIN @ |-> FALSE], TRUE),
            !.select_index = Append([s \in DOMAIN @ |-> 0], 1),
            !.material_index = Append(@, @[src.stroke]),
            !.vertex_color_fill = Append(@, @[src.stroke]),
            !.new_stroke = new_stroke,
            !.new_index = new_index,
            !.new_layer_index = src.layer]

RECURSIVE offset_new_strokes(_, _, _, _)
\* lines 341-351, for a result of n polygons of the stroke stroke_info[ref]
offset_new_strokes(b, ref, n, arrange_offset) ==
    IF n = 0 THEN b
    ELSE LET c == poly_to_stroke_arranged(b, ref, arrange_offset)
         IN  offset_new_strokes(
                 [c EXCEPT !.generated = Append(@, c.new_stroke),
                           !.info = UpdateIndex(@, c.new_index, c.new_layer_index)],
                 ref, n - 1, arrange_offset)

\* lines 353-354 made part of the branch of line 341: the original stroke
\* stays when its result has no polygon
RemoveOriginal_IfResults(frames, stroke, n) ==
    IF offset_keep_original \/ n = 0 THEN frames
    ELSE [f \in 1..Len(frames) |->
             SelectSeq2(frames[f], Range(frames[f]) \ {stroke})]

\* lines 353-354, after a result of n polygons
RemoveOriginal(frames, stroke, n) ==
    IF offset_keep_original THEN frames
    ELSE [f \in 1..Len(frames) |->
             SelectSeq2(frames[f], Range(frames[f]) \ {stroke})]

\* the next frame of the loop of line 294, or the post-processing
OffsetNextFrame ==
    IF frame_idx < Len(strokes)
    THEN pc' = "offset_frames" /\ frame_idx' = frame_idx + 1
    ELSE pc' = "offset_post" /\ frame_idx' = frame_idx

\* the scale factors stroke_to_poly(stroke_list, scale = True) may return
OffsetScales == {RInt(1), RInt(SCALE_CONSTANT)}

\* lines 294-308
OffsetFrameBegin ==
    /\ pc = "offset_frames"
    /\ LET sel == load_stroke_selection(strokes, select_map, select)
           info == CollectSelected(strokes, frame_idx, layer_lock, sel)
       IN  /\ select' = sel
           /\ select_index' = SetSelect(FlattenFrames(strokes), select_index, sel)
           /\ stroke_info' = info
           /\ scale_factor' \in OffsetScales
           /\ IF info = <<>>
              THEN OffsetNextFrame /\ offset_j' = offset_j
              ELSE pc' = "offset_stroke" /\ frame_idx' = frame_idx /\ offset_j' = 1
    /\ UNCHANGED <<operator, pyclipper_available, report, strokes, material_index,
                   vertex_color_fill, layer_lock, material_slots, holeVars,
                   boolOptions, select_seq, subject_set, clip_set,
                   ref_stroke_mask, generated_strokes, pending, clipper_log,
                   sceneVars, meshVars, projVars, polyArgs, orientation,
                   poly_list, offsetOptions>>

\* lines 311-354: one iteration of the loop over poly_list
OffsetStroke ==
    /\ pc = "offset_stroke"
    /\ LET stroke == stroke_info[offset_j].stroke
       IN  \E n1, n2 \in 0..MaxResults :
               /\ IF end_type_mode = "ET_CLOSE_CORNER"
                  THEN n1 = 0 => n2 = 0
                  ELSE n2 = n1
               /\ clipper_log' = clipper_log \o
                     ExecuteCalls(stroke, frame_idx, Len(clipper_log) + 1, n1, n2)
               /\ LET b == offset_new_strokes(BoolState, offset_j, n2,
                                              ArrangeOffset(stroke))
                  IN  /\ strokes' = RemoveOriginal(b.strokes, stroke, n2)
                      /\ select' = b.select
                      /\ select_index' = b.select_index
                      /\ material_index' = b.material_index
                      /\ vertex_color_fill' = b.vertex_color_fill
                      /\ stroke_info' = b.info
                      /\ generated_strokes' = b.generated
    /\ IF offset_j < Len(stroke_info)
       THEN pc' = "offset_stroke" /\ frame_idx' = frame_idx
                                  /\ offset_j' = offset_j + 1
       ELSE OffsetNextFrame /\ offset_j' = offset_j
    /\ UNCHANGED <<operator, pyclipper_available, report, layer_lock,
                   material_slots, holeVars, boolOptions, select_seq,
                   subject_set, clip_set, ref_stroke_mask, pending, sceneVars,
                   meshVars, projVars, polyVars, offsetOptions>>

\* lines 357-363
OffsetPost ==
    /\ pc = "offset_post"
    /\ select' = [s \in DOMAIN select |->
                     select[s] \/ s \in Range(generated_strokes)]
    /\ select_index' = SetSelect(generated_strokes, select_index, select')
    /\ pc' = "done"
    /\ UNCHANGED <<operator, pyclipper_available, report, frame_idx, strokes,
                   material_index, vertex_color_fill, layer_lock, material_slots,
                   holeVars, outsideHole>>

\* two frames that hold MaxOffsetStrokes strokes or fewer, of a solid or of
\* a holdout material, of which any are selected; the offset of a holdout
\* stroke is inverted and multiframe editing is off
InitOffset ==
    /\ pc = "offset_import"
    /\ operator = "offset_selected"
    /\ pyclipper_available = TRUE
    /\ report = <<>>
    /\ frame_idx = 1
    /\ material_slots = InitialSlots
    /\ select_map = <<>>
    /\ layer_lock = <<FALSE, FALSE>>
    /\ HoleIdle
    /\ BoolIdle
    /\ SceneIdle
    /\ MeshIdle
    /\ ProjIdle
    /\ PolyIdle
    /\ \E n \in 0..MaxOffsetStrokes, a \in 0..MaxOffsetStrokes :
          /\ a <= n
          /\ strokes = << [i \in 1..a |-> i], [i \in 1..(n - a) |-> a + i] >>
          /\ select \in [1..n -> BOOLEAN]
          /\ select_index = SetSelect([i \in 1..n |-> i], [i \in 1..n |-> 0], select)
          /\ material_index \in [1..n -> {1, 3}]
          /\ vertex_color_fill = [i \in 1..n |-> 1]
    /\ offset_amount \in {-1, 1}
    /\ multiframe_falloff = RInt(0)
    /\ end_type_mode \in EndTypeModes
    /\ offset_keep_original \in BOOLEAN
    /\ invert_holdout = TRUE
    /\ use_multiedit = FALSE
    /\ frame_current = 1
    /\ offset_j = 0

NextOffset ==
    \/ OffsetImport
    \/ OffsetFrameBegin
    \/ OffsetStroke
    \/ OffsetPost

SpecOffset == InitOffset /\ [][NextOffset]_vars

(***************************************************************************)
(* Hole processing of a frame of which only some strokes are selected.     *)
(***************************************************************************)
\* one frame of n strokes, solid or holdout, of which any are selected, in
\* the order of their position
InitHoleSome ==
    /\ OffsetIdle
    /\ HoleStart
    /\ \E n \in 0..MaxPolys :
          /\ strokes = << [i \in 1..n |-> i] >>
          /\ select \in [1..n -> BOOLEAN]
          /\ select_index = SetSelect([i \in 1..n |-> i], [i \in 1..n |-> 0], select)
          /\ material_index \in [1..n -> {1, 3}]
          /\ vertex_color_fill = [i \in 1..n |-> 1]
          /\ inside \in InsideRelations(Cardinality({i \in 1..n : select[i]}))
    /\ separate_colors = FALSE
    /\ rearrange \in BOOLEAN

SpecHoleSome == InitHoleSome /\ [][NextHole]_vars

\* an outcome of InsideRelations with is_poly_in_poly(p, p) taken as true:
\* line 111 does not call it for i = j
WithSelf(ins) == [i \in DOMAIN ins |-> [j \in DOMAIN ins[i] |-> i = j \/ ins[i][j]]]

\* one frame of n selected strokes, solid or line-only
InitHoleLines ==
    /\ OffsetIdle
    /\ HoleStart
    /\ \E n \in 0..MaxPolys :
          /\ strokes = << [i \in 1..n |-> i] >>
          /\ select = [i \in 1..n |-> TRUE]
          /\ select_index = [i \in 1..n |-> i]
          /\ material_index \in [1..n -> 1..2]
          /\ vertex_color_fill = [i \in 1..n |-> 1]
          /\ inside \in {WithSelf(ins) : ins \in InsideRelations(n)}
    /\ separate_colors = FALSE
    /\ rearrange = FALSE

SpecHoleLines == InitHoleLines /\ [][NextHole]_vars

(***************************************************************************)
(* Boolean-of-Selected with every source of attributes                     *)
(* (BoolSelectedOperator.stroke_inherited).                                *)
(***************************************************************************)
StrokeInherited == {"AUTO", "SUBJECT", "CLIP"}

\* two frame groups on unlocked layers that hold MaxStrokes strokes or
\* fewer, all of them selected, in any order, the last MaxClips of them or
\* one fewer being clips; the subjects are deleted and the clips kept
InitBoolInherit ==
    /\ OffsetIdle
    /\ pc = "bool_import"
    /\ operator = "bool_selected"
    /\ pyclipper_available = TRUE
    /\ report = <<>>
    /\ frame_idx = 1
    /\ material_slots = InitialSlots
    /\ select_map = <<>>
    /\ HoleIdle
    /\ SceneIdle
    /\ MeshIdle
    /\ ProjIdle
    /\ PolyIdle
    /\ \E n \in 0..MaxStrokes, a \in 0..MaxStrokes :
          /\ a <= n
          /\ strokes = << [i \in 1..a |-> i], [i \in 1..(n - a) |-> a + i] >>
          /\ select_index \in {f \in SelectionOrders(n) : \A k \in 1..n : f[k] > 0}
          /\ select = [i \in 1..n |-> select_index[i] > 0]
          /\ material_index = [i \in 1..n |-> 1]
          /\ vertex_color_fill = [i \in 1..n |-> 1]
    /\ layer_lock = <<FALSE, FALSE>>
    /\ operation_type = "DIFFERENCE"
    /\ stroke_inherited \in StrokeInherited
    /\ processing_seq \in {"ALL", "EACH"}
    /\ num_clips \in Max({1, MaxClips - 1})..MaxClips
    /\ keep_subjects = FALSE
    /\ keep_clips = TRUE
    /\ stroke_info = <<>>
    /\ select_seq = <<>>
    /\ subject_set = {}
    /\ clip_set = {}
    /\ ref_stroke_mask = {}
    /\ generated_strokes = <<>>
    /\ pending = <<>>
    /\ clipper_log = <<>>

SpecBoolInherit == InitBoolInherit /\ [][NextBool]_vars

(***************************************************************************)
(* Offset selected with multiframe editing on or off                       *)
(* (OffsetSelectedOperator.multiframe_falloff, invert_holdout).            *)
(***************************************************************************)
MaxFrame == 3

\* values of multiframe_falloff, a float between its min 0 and its max 1
Falloffs == {RInt(0), <<1, 2>>, RInt(1)}

\* two frames that hold MaxOffsetStrokes strokes or fewer, all selected, of
\* a solid or of a holdout material; the originals are kept and the end type
\* is the default; without multiframe editing the falloff is 1/2 and the
\* current frame is the last one
InitOffsetFalloff ==
    /\ pc = "offset_import"
    /\ operator = "offset_selected"
    /\ pyclipper_available = TRUE
    /\ report = <<>>
    /\ frame_idx = 1
    /\ material_slots = InitialSlots
    /\ select_map = <<>>
    /\ layer_lock = <<FALSE, FALSE>>
    /\ HoleIdle
    /\ BoolIdle
    /\ SceneIdle
    /\ MeshIdle
    /\ ProjIdle
    /\ PolyIdle
    /\ \E n \in 0..MaxOffsetStrokes, a \in 0..MaxOffsetStrokes :
          /\ a <= n
          /\ strokes = << [i \in 1..a |-> i], [i \in 1..(n - a) |-> a + i] >>
          /\ select = [i \in 1..n |-> TRUE]
          /\ select_index = [i \in 1..n |-> i]
          /\ material_index \in [1..n -> {1, 3}]
          /\ vertex_color_fill = [i \in 1..n |-> 1]
    /\ offset_amount \in {-1, 1}
    /\ end_type_mode = "ET_CLOSE"
    /\ offset_keep_original = TRUE
    /\ invert_holdout \in BOOLEAN
    /\ use_multiedit \in BOOLEAN
    /\ multiframe_falloff \in IF use_multiedit THEN Falloffs ELSE {<<1, 2>>}
    /\ frame_current \in IF use_multiedit THEN 1..MaxFrame ELSE {MaxFrame}
    /\ offset_j = 0

SpecOffsetFalloff == InitOffsetFalloff /\ [][NextOffset]_vars

(***************************************************************************)
(* The vertices of mesh generation (process_single_stroke, lines 121 and   *)
(* 140-158).  The levels above count the points of a contour; here a level *)
(* has one polygon of one point at most, whose coordinates, height and     *)
(* position are followed.  A root math.sqrt(x) is kept as [sqrt |-> x].    *)
(***************************************************************************)
MaxAmount == 2

\* |a| for a fraction a
RAbs(a) == <<Abs(a[1]), a[2]>>

\* line 121
OffsetInterval(amount, res, factor) ==
    RMul(RDiv(RInt(amount), RInt(res)), factor)

\* math.sqrt(x), which raises a ValueError for a negative x
Sqrt(x) == IF RLess(x, RInt(0)) THEN "ValueError" ELSE [sqrt |-> x]

\* line 152, with j // 2 for (j+1) // 2
StepHeight_Floor(j, interval, factor) ==
    RAbs(RDiv(RMul(RInt(j \div 2), interval), factor))

\* line 152
StepHeight(j, interval, factor) ==
    RAbs(RDiv(RMul(RInt((j + 1) \div 2), interval), factor))

\* line 150, with the height itself in place of sphere_rad - height
SphereHeight_Plain(amount, height) ==
    LET sphere_rad == RInt(Abs(amount))
    IN  Sqrt(RSub(RMul(sphere_rad, sphere_rad), RMul(height, height)))

\* lines 149-150
SphereHeight(amount, height) ==
    LET sphere_rad == RInt(Abs(amount))
    IN  Sqrt(RSub(RMul(sphere_rad, sphere_rad),
                  RMul(RSub(sphere_rad, height), RSub(sphere_rad, height))))

\* line 147, without the abs
LinearHeight_Signed(j, interval, factor) ==
    RDiv(RMul(RInt(j), interval), factor)

\* line 147
LinearHeight(j, interval, factor) ==
    RAbs(RDiv(RMul(RInt(j), interval), factor))

\* lines 147-152: the height of level j
LevelHeight(style, j, amount, res, factor) ==
    LET interval == OffsetInterval(amount, res, factor)
        height == LinearHeight(j, interval, factor)
    IN  IF style = "SPHERE" THEN SphereHeight(amount, height)
        ELSE IF style = "STEP" THEN StepHeight(j, interval, factor)
        ELSE height

\* -height
NegHeight(style, height) ==
    IF style = "SPHERE" THEN [neg |-> height] ELSE RNeg(height)

\* lines 155-158: [co[0]/scale_factor, -height, -co[1]/scale_factor]
VertexCo(style, co, height, factor) ==
    <<RDiv(co[1], factor), NegHeight(style, height), RNeg(RDiv(co[2], factor))>>

\* the points of the contours
MeshPoints == {<<RInt(0), RInt(0)>>, <<RInt(2), RInt(-4)>>}

\* lines 140-158 for level level_j, whose contour has no polygon, or one
\* polygon of the point co
MeshVertsLevel ==
    /\ pc = "mesh_verts"
    /\ \/ bm_verts' = bm_verts
       \/ \E co \in MeshPoints :
             LET height == LevelHeight(slope_style, level_j, offset_amount,
                                       resolution, scale_factor)
             IN  bm_verts' = Append(bm_verts,
                     [level |-> level_j, height |-> height, point |-> co,
                      co |-> VertexCo(slope_style, co, height, scale_factor)])
    /\ level_j' = level_j + 1
    /\ pc' = IF level_j + 1 < resolution * Copies(slope_style)
             THEN "mesh_verts" ELSE "done"
    /\ UNCHANGED <<operator, pyclipper_available, report, frame_idx, hostVars,
                   sceneVars, meshOptions, mesh_stroke_info, mesh_names,
                   stroke_i, contours, vert_idx_list, verts_by_level,
                   edges_by_level, edge_extruded, faces, face_verts,
                   outsideMesh>>

\* one selected stroke; any working plane, resolution, slope style, offset
\* amount and scale factor
InitMeshVerts ==
    /\ pc = "mesh_verts"
    /\ operator = "mesh_generation"
    /\ pyclipper_available = TRUE
    /\ report = <<>>
    /\ frame_idx = 1
    /\ layer_lock = <<FALSE>>
    /\ material_slots = InitialSlots
    /\ select_map = <<>>
    /\ strokes = << <<1>> >>
    /\ select = <<TRUE>>
    /\ select_index = <<1>>
    /\ material_index = <<1>>
    /\ vertex_color_fill = <<1>>
    /\ HoleIdle
    /\ BoolIdle
    /\ ProjIdle
    /\ mode = "EDIT_GPENCIL"
    /\ meshes = <<>>
    /\ working_plane \in Planes
    /\ resolution \in 2..MaxResolution
    /\ slope_style \in SlopeStyles
    /\ offset_interval = 0
    /\ keep_original = TRUE
    /\ offset_result = <<>>
    /\ fill_result = <<>>
    /\ mesh_stroke_info = <<[stroke |-> 1, layer |-> 1, index |-> 1]>>
    /\ mesh_names = << <<"Offset", 1, 1>> >>
    /\ stroke_i = 1
    /\ contours = <<>>
    /\ vert_idx_list = <<>>
    /\ level_j = 0
    /\ verts_by_level = <<>>
    /\ edges_by_level = <<>>
    /\ edge_extruded = <<>>
    /\ faces = {}
    /\ face_verts = <<>>
    /\ bm_verts = <<>>
    /\ stroke_points = <<>>
    /\ scale = TRUE
    /\ correct_orientation = FALSE
    /\ fixed_scale_factor = <<>>
    /\ orientation = <<>>
    /\ poly_list = <<>>
    /\ scale_factor \in OffsetScales
    /\ offset_amount \in (0 - MaxAmount)..MaxAmount
    /\ multiframe_falloff = <<0, 1>>
    /\ end_type_mode = "ET_CLOSE"
    /\ offset_keep_original = FALSE
    /\ invert_holdout = TRUE
    /\ use_multiedit = FALSE
    /\ frame_current = 1
    /\ offset_j = 0

NextMeshVerts == MeshVertsLevel

SpecMeshVerts == InitMeshVerts /\ [][NextMeshVerts]_vars

(***************************************************************************)
(* The operators that save the selection and load it again: Boolean of     *)
(* Selected, which creates and deletes strokes in between, and hole        *)
(* processing, which selects the strokes of every batch.                   *)
(***************************************************************************)
InitSelection == InitBoolInherit \/ InitHoleSome

NextSelection == NextBool \/ NextHole

SpecSelection == InitSelection /\ [][NextSelection]_vars

(***************************************************************************)
(* Boolean with Last Stroke after the dependency check.  The active layer  *)
(* is the one of frame_idx; the clip stroke is the topmost stroke of its   *)
(* active frame.  The material locks, the two constraints of the scene and *)
(* the overlaps of the strokes are inputs of the search for subjects.      *)
(***************************************************************************)
UnlockedLayerMsg == "Please select an unlocked layer."

NonEmptyLayerMsg == "Please select a non-empty layer."

\* lines 613-636: the clipper is configured, then the active layer is checked
BoolLastLayer ==
    /\ pc = "boollast_layer"
    /\ IF layer_lock[frame_idx]
       THEN /\ report' = Append(report, UnlockedLayerMsg)
            /\ mode' = "PAINT_GPENCIL"
            /\ pc' = "done"
       ELSE IF Len(strokes[frame_idx]) < 1
       THEN /\ report' = Append(report, NonEmptyLayerMsg)
            /\ mode' = "PAINT_GPENCIL"
            /\ pc' = "done"
       ELSE /\ report' = report
            /\ mode' = mode
            /\ pc' = "boollast_collect"
    /\ UNCHANGED <<operator, pyclipper_available, frame_idx, hostVars, holeVars,
                   boolVars, meshes, working_plane, meshVars, projVars, polyVars,
                   offsetVars>>

\* lines 642-652: the places of the active frame whose stroke can be operated
\* on with the clip stroke, the last one
OperableStrokes(frame, locked, material_constraint, fill_constraint, overlapping) ==
    {j \in 1..(Len(frame) - 1) :
        /\ material_index[frame[j]] \notin locked
        /\ ~ (material_constraint
              /\ material_index[frame[j]] # material_index[frame[Len(frame)]])
        /\ ~ (fill_constraint /\ is_stroke_line(material_slots, material_index[frame[j]]))
        /\ j \in overlapping}

\* lines 639-654: stroke_info, the clip stroke first
LastStrokeInfo(frame, layer_index, places) ==
    <<[stroke |-> frame[Len(frame)], layer |-> layer_index, index |-> Len(frame)]>>
    \o [k \in 1..Cardinality(places) |->
           [stroke |-> frame[SetToSeq(places)[k]], layer |-> layer_index,
            index |-> SetToSeq(places)[k]]]

\* lines 638-658
BoolLastCollect ==
    /\ pc = "boollast_collect"
    /\ \E locked \in SUBSET (1..Len(material_slots)),
          material_constraint \in BOOLEAN, fill_constraint \in BOOLEAN,
          overlapping \in SUBSET (1..(Len(strokes[frame_idx]) - 1)) :
          stroke_info' =
              LastStrokeInfo(strokes[frame_idx], frame_idx,
                             OperableStrokes(strokes[frame_idx], locked,
                                             material_constraint, fill_constraint,
                                             overlapping))
    /\ IF Len(stroke_info') = 1
       THEN /\ mode' = "PAINT_GPENCIL"
            /\ pending' = pending
            /\ pc' = "done"
       ELSE /\ mode' = mode
            /\ pending' = [k \in 1..(Len(stroke_info') - 1) |-> k + 1]
            /\ pc' = "boollast_execute"
    /\ UNCHANGED <<operator, pyclipper_available, report, frame_idx, hostVars,
                   holeVars, boolOptions, select_seq, subject_set, clip_set,
                   ref_stroke_mask, generated_strokes, clipper_log, meshes,
                   working_plane, meshVars, projVars, polyVars, offsetVars>>

\* lines 673-689: one iteration of the loop over stroke_list; poly_results has
\* n polygons, and every new stroke refers to stroke_info[j], the clip stroke
\* being masked
BoolLastExecute ==
    /\ pc = "boollast_execute"
    /\ pending # <<>>
    /\ LET j == Head(pending)
           paths == AddPaths(Clear(ClipperPaths), {j}, {1})
       IN  /\ clipper_log' = Append(clipper_log,
                                    [op |-> operation_type,
                                     subjects |-> paths.subjects,
                                     clips |-> paths.clips])
           /\ \E n \in 0..MaxResults :
                 LET b == generate_new_strokes(BoolState, [m \in 1..n |-> j])
                 IN  /\ strokes' = b.strokes
                     /\ select' = b.select
                     /\ select_index' = b.select_index
                     /\ material_index' = b.material_index
                     /\ vertex_color_fill' = b.vertex_color_fill
                     /\ stroke_info' = b.info
    /\ pending' = Tail(pending)
    /\ pc' = IF Tail(pending) = <<>> THEN "boollast_delete" ELSE "boollast_execute"
    /\ UNCHANGED <<operator, pyclipper_available, report, frame_idx, layer_lock,
                   material_slots, holeVars, boolOptions, select_seq, subject_set,
                   clip_set, ref_stroke_mask, generated_strokes, sceneVars,
                   meshVars, projVars, polyVars, offsetVars>>

\* lines 691-698
BoolLastDelete ==
    /\ pc = "boollast_delete"
    /\ LET gone == {stroke_info[k].stroke : k \in 1..Len(stroke_info)}
       IN  strokes' = [f \in 1..Len(strokes) |->
                          SelectSeq2(strokes[f], Range(strokes[f]) \ gone)]
    /\ mode' = "PAINT_GPENCIL"
    /\ pc' = "done"
    /\ UNCHANGED <<operator, pyclipper_available, report, frame_idx, select,
                   select_index, material_index, vertex_color_fill, layer_lock,
                   material_slots, holeVars, boolVars, meshes, working_plane,
                   meshVars, projVars, polyVars, offsetVars>>

\* Boolean with Last Stroke is called in draw mode, with or without
\* pyclipper, on two layers of which either may be active or locked; the
\* strokes have a fill material or a line material
InitBoolLast ==
    /\ OffsetIdle
    /\ pc = "boollast_enter"
    /\ operator = "bool_last"
    /\ pyclipper_available \in BOOLEAN
    /\ report = <<>>
    /\ frame_idx \in 1..2
    /\ material_slots = InitialSlots
    /\ select_map = <<>>
    /\ HoleIdle
    /\ mode = "PAINT_GPENCIL"
    /\ meshes = <<>>
    /\ working_plane = "X-Z"
    /\ MeshIdle
    /\ ProjIdle
    /\ PolyIdle
    /\ \E n \in 0..MaxStrokes, a \in 0..MaxStrokes :
          /\ a <= n
          /\ strokes = << [i \in 1..a |-> i], [i \in 1..(n - a) |-> a + i] >>
          /\ select = [i \in 1..n |-> i = n]
          /\ select_index = [i \in 1..n |-> IF i = n THEN 1 ELSE 0]
          /\ material_index \in [1..n -> {1, 2}]
          /\ vertex_color_fill = [i \in 1..n |-> 1]
    /\ layer_lock \in [1..2 -> BOOLEAN]
    /\ operation_type \in OperationTypes
    /\ stroke_inherited = "SUBJECT"
    /\ processing_seq = "ALL"
    /\ num_clips = 1
    /\ keep_subjects = FALSE
    /\ keep_clips = FALSE
    /\ stroke_info = <<>>
    /\ select_seq = <<>>
    /\ subject_set = {}
    /\ clip_set = {}
    /\ ref_stroke_mask = {}
    /\ generated_strokes = <<>>
    /\ pending = <<>>
    /\ clipper_log = <<>>

NextBoolLast ==
    \/ BoolLastEnter
    \/ BoolLastImport
    \/ BoolLastLayer
    \/ BoolLastCollect
    \/ BoolLastExecute
    \/ BoolLastDelete

SpecBoolLast == InitBoolLast /\ [][NextBoolLast]_vars

(***************************************************************************)
(* Hole processing over two frames, called again after it has returned.    *)
(* The object may already have a slot named 'Solid_Holdout', and a stroke  *)
(* may already have a holdout material.  The two frames hold as many       *)
(* strokes, and the strokes at the same places nest in the same way.       *)
(***************************************************************************)
MaxRuns == 2

\* the material slots of an object on which hole processing has created the
\* holdout material of 'Solid' before
SlotsWithHoldout ==
    Append(InitialSlots, Material(HoldoutName(<<"Solid">>), TRUE, TRUE))

\* the material slots of an object with a second fill material
SlotsWithTwoFills == Append(InitialSlots, Material(<<"Paint">>, TRUE, FALSE))

\* lines 29 and 64: the operator is called again; material_idx_map is a local
\* of execute
HoleAgain ==
    /\ pc = "done"
    /\ operator = "hole_processing"
    /\ hole_runs + 1 < MaxRuns
    /\ hole_runs' = hole_runs + 1
    /\ material_idx_map' = <<>>
    /\ frame_idx' = 1
    /\ pc' = "hole_import"
    /\ UNCHANGED <<operator, pyclipper_available, report, hostVars,
                   separate_colors, rearrange, inside, to_process, relation_mat,
                   is_hole_map, processed, peel_log, select_map, outsideHole>>

InitHoleFrames ==
    /\ OffsetIdle
    /\ pc = "hole_import"
    /\ operator = "hole_processing"
    /\ pyclipper_available = TRUE
    /\ report = <<>>
    /\ frame_idx = 1
    /\ layer_lock = <<FALSE, FALSE>>
    /\ material_slots \in {InitialSlots, SlotsWithHoldout, SlotsWithTwoFills}
    /\ to_process = <<>>
    /\ relation_mat = <<>>
    /\ is_hole_map = <<>>
    /\ processed = {}
    /\ material_idx_map = <<>>
    /\ select_map = <<>>
    /\ peel_log = <<>>
    /\ hole_runs = 0
    /\ BoolIdle
    /\ SceneIdle
    /\ MeshIdle
    /\ ProjIdle
    /\ PolyIdle
    /\ \E a \in 1..(MaxPolys - 1) :
          /\ strokes = << [i \in 1..a |-> i], [i \in 1..a |-> a + i] >>
          /\ select = [i \in 1..(2 * a) |-> TRUE]
          /\ select_index = [i \in 1..(2 * a) |-> i]
          /\ material_index \in [1..(2 * a) -> {1, Len(material_slots)}]
          /\ vertex_color_fill = [i \in 1..(2 * a) |-> 1]
          /\ inside \in NestingRelations(a)
    /\ separate_colors = FALSE
    /\ rearrange = FALSE

NextHoleFrames == NextHole \/ HoleAgain

SpecHoleFrames == InitHoleFrames /\ [][NextHoleFrames]_vars

(***************************************************************************)
(* What the peeling loop did, read from peel_log.                          *)
(***************************************************************************)
NumPolys == Len(to_process)

Iterations == Len(peel_log)

\* the polygons (indices of to_process) processed in iteration k
BatchOf(k) == Range(peel_log[k].idx_list)

\* the polygons processed before iteration k
ProcessedBefore(k) == UNION {BatchOf(m) : m \in 1..(k - 1)}

\* the peel generation of polygon i, counted from 0
Generation(i) == (CHOOSE k \in 1..Iterations : i \in BatchOf(k)) - 1

\* the hole flag polygon i saw in iteration k
FlagSeen(k, i) ==
    peel_log[k].seen[ColorKey(separate_colors, vertex_color_fill, to_process[i])]

\* material slot and material of polygon i when the frame was entered
FirstMaterialIndex(i) == peel_log[1].mi[to_process[i]]
FirstMaterial(i) == peel_log[1].slots[FirstMaterialIndex(i)]

\* the number of polygons that polygon i lies in
Depth(i) == Cardinality({j \in 1..NumPolys : j # i /\ inside[i][j]})

\* the edges i -> j of the containment relation as process_one_frame builds it
ContainmentEdges ==
    {p \in OffDiagonal(NumPolys) :
        inside[p[1]][p[2]] /\ FirstMaterial(p[2]).show_fill}

RECURSIVE ReachableFrom(_, _, _)
ReachableFrom(edges, front, fuel) ==
    LET next == front \cup {p[2] : p \in {q \in edges : q[1] \in front}}
    IN  IF fuel = 0 \/ next = front THEN front
        ELSE ReachableFrom(edges, next, fuel - 1)

Acyclic(edges, n) ==
    \A i \in 1..n :
        i \notin ReachableFrom(edges, {p[2] : p \in {q \in edges : q[1] = i}}, n)

\* N filled polygons nested as a chain: of any two, one lies in the other
NestedChain ==
    /\ \A i \in 1..NumPolys : FirstMaterial(i).show_fill
    /\ \A i, j \in 1..NumPolys : i # j => (inside[i][j] # inside[j][i])
    /\ Acyclic(ContainmentEdges, NumPolys)

\* the loop ran N times, one polygon each, from the outermost inwards
OneRingPerIteration ==
    /\ Iterations = NumPolys
    /\ \A k \in 1..Iterations :
          /\ Len(peel_log[k].idx_list) = 1
          /\ Depth(peel_log[k].idx_list[1]) = k - 1

\* the flag seen by ring k is false, true, false, ...
FlagsAlternate ==
    \A k \in 1..Iterations :
        \A i \in BatchOf(k) : FlagSeen(k, i) = ((k - 1) % 2 = 1)

OneFillColor ==
    \A i, j \in 1..NumPolys :
        vertex_color_fill[to_process[i]] = vertex_color_fill[to_process[j]]

\* C1 as stated: for N filled polygons nested as a chain the peeling loop
\* runs exactly N iterations, one polygon per iteration from the outermost
\* to the innermost, and the hole flag seen by successive rings alternates
\* false, true, false, ...
C1_ChainAlternatesAlways ==
    (pc = "done" /\ NumPolys > 0 /\ NestedChain)
        => (OneRingPerIteration /\ FlagsAlternate)

\* C1 amended: the same, with the alternation of the flag only when
\* separate_colors is off or all N polygons have one fill colour
C1_ChainPeeling ==
    (pc = "done" /\ NumPolys > 0 /\ NestedChain)
        => /\ OneRingPerIteration
           /\ (~ separate_colors \/ OneFillColor) => FlagsAlternate

C1_Witness ==
    /\ pc = "done"
    /\ NumPolys = 3
    /\ NestedChain
    /\ ~ separate_colors
    /\ Iterations = 3
    /\ FlagSeen(3, peel_log[3].idx_list[1]) = FALSE
    /\ FlagSeen(2, peel_log[2].idx_list[1]) = TRUE

\* C2: for any containment relation, cyclic ones included, the peeling loop
\* runs at most N iterations: every iteration either marks at least one
\* new polygon as processed, or finds no outermost polygon and is the last
C2_AtMostNIterations ==
    /\ Iterations <= NumPolys
    /\ \A k \in 1..Iterations :
          \/ /\ BatchOf(k) # {}
             /\ BatchOf(k) \cap ProcessedBefore(k) = {}
          \/ /\ BatchOf(k) = {}
             /\ k = Iterations
             /\ pc # "hole_loop"
    /\ pc = "hole_loop" => Cardinality(processed) < NumPolys

C2_Witness ==
    /\ pc = "done"
    /\ NumPolys = 3
    /\ Iterations = 2
    /\ BatchOf(1) # {}
    /\ BatchOf(2) = {}
    /\ \E i, j \in 1..NumPolys :
          i # j /\ relation_mat[i][j] = 1 /\ relation_mat[j][i] = 1

Switched(i) == material_index[to_process[i]] # FirstMaterialIndex(i)

\* the material polygon i ends with is the holdout variant of its first one
HoldoutVariant(i) ==
    material_slots[material_index[to_process[i]]].name
        = HoldoutName(FirstMaterial(i).name)

\* C3 as stated: with separate_colors off and an acyclic relation a polygon
\* is switched to the holdout variant of its material if and only if its
\* peel generation is odd and it is not line-only
C3_SwitchedIffOddFilled ==
    (pc = "done" /\ NumPolys > 0 /\ ~ separate_colors
        /\ Acyclic(ContainmentEdges, NumPolys))
        => \A i \in 1..NumPolys :
              (Switched(i) /\ HoldoutVariant(i))
                  <=> (Generation(i) % 2 = 1 /\ FirstMaterial(i).show_fill)

\* C3 amended: ... if and only if its peel generation is odd, it is not
\* line-only and its material does not have fill holdout already; polygons
\* processed in the first iteration are never switched
C3_SwitchedIffOddFilledNotHoldout ==
    (pc = "done" /\ NumPolys > 0 /\ ~ separate_colors
        /\ Acyclic(ContainmentEdges, NumPolys))
        => \A i \in 1..NumPolys :
              /\ Switched(i)
                    <=> /\ Generation(i) % 2 = 1
                        /\ FirstMaterial(i).show_fill
                        /\ ~ FirstMaterial(i).use_fill_holdout
              /\ Switched(i) => HoldoutVariant(i)
              /\ Generation(i) = 0 => ~ Switched(i)

C3_Witness ==
    /\ pc = "done"
    /\ NumPolys = 3
    /\ ~ separate_colors
    /\ Acyclic(ContainmentEdges, NumPolys)
    /\ \E i, j, k \in 1..NumPolys :
          /\ Generation(i) = 1 /\ Switched(i) /\ HoldoutVariant(i)
          /\ Generation(j) = 1 /\ ~ FirstMaterial(j).show_fill /\ ~ Switched(j)
          /\ Generation(k) = 0 /\ ~ Switched(k)

(***************************************************************************)
(* Boolean of Selected: subjects and clips.                                *)
(***************************************************************************)
\* the frame group has been divided into subjects and clips
Partitioned == pc \in {"bool_all", "bool_each", "bool_delete"}

\* the selection sequence number of polygon k of the frame group
SeqNumber(k) == select_map[frame_idx][stroke_info[k].stroke]

\* C4: in Boolean of Selected with n >= 2 selected polygons and any
\* num_clips >= 1, the subject set and the clip set are disjoint, together
\* cover the n polygons and are both non-empty, the clip set has
\* min(num_clips, n-1) members, and every clip has a selection sequence
\* number greater than or equal to that of every subject.
C4_SubjectClipPartition ==
    Partitioned /\ Len(stroke_info) >= 2 /\ num_clips >= 1 =>
        LET n == Len(stroke_info)
        IN  /\ subject_set \cap clip_set = {}
            /\ subject_set \cup clip_set = 1..n
            /\ subject_set # {}
            /\ clip_set # {}
            /\ Cardinality(clip_set) = (IF num_clips < n - 1 THEN num_clips ELSE n - 1)
            /\ \A c \in clip_set : \A sb \in subject_set :
                   SeqNumber(c) >= SeqNumber(sb)

\* two polygons and two requested clips: the polygon selected first, which
\* is the upper one of the frame, is kept as the subject
C4_Witness ==
    /\ Partitioned
    /\ Len(stroke_info) = 2
    /\ num_clips = 2
    /\ subject_set = {2}
    /\ clip_set = {1}
    /\ SeqNumber(2) < SeqNumber(1)

(***************************************************************************)
(* Boolean of Selected: frame groups with fewer than two polygons.         *)
(***************************************************************************)
\* the strokes of frame group f that were selected when the operator began
SelectedAtStart(f) == {st \in DOMAIN select_map[f] : select_map[f][st] > 0}

\* C5: if a frame group has fewer than 2 selected polygons, Boolean of
\* Selected creates no stroke and removes no stroke in that frame group,
\* whatever the operation type and the keep flags.
C5_FewPolygonsNoOp ==
    pc # "bool_import" /\ select_map # <<>> =>
        \A f \in 1..Len(strokes) :
            Cardinality(SelectedAtStart(f)) < 2 =>
                Range(strokes[f]) = DOMAIN select_map[f]

\* the operator has returned; the first frame group has one selected stroke
\* in an unlocked layer and still holds it, the second group got a new stroke
\* and lost its subject and its clip
C5_Witness ==
    /\ pc = "done"
    /\ select_map # <<>>
    /\ ~ layer_lock[1]
    /\ Cardinality(SelectedAtStart(1)) = 1
    /\ Len(strokes[1]) = 1
    /\ Cardinality(SelectedAtStart(2)) = 2
    /\ generated_strokes # <<>>
    /\ ~ keep_subjects /\ ~ keep_clips
    /\ Range(strokes[2]) = Range(generated_strokes)

(***************************************************************************)
(* Mesh generation: the levels.                                            *)
(***************************************************************************)
\* the offsets of the stroke at hand have been calculated
OffsetsCalculated ==
    pc \in {"mesh_level", "mesh_cap", "mesh_cleanup", "mesh_object"}

\* the loop over the levels of the stroke at hand has ended
LevelsBuilt == pc \in {"mesh_cap", "mesh_cleanup", "mesh_object"}

\* the contour set of the offset by -j * offset_interval
ContourOfOffset(j) == offset_result[0 - j * offset_interval]

\* C7: mesh generation for one stroke builds exactly resolution levels
\* (2 * resolution for the STEP slope style), ordered by increasing inward
\* offset: without STEP, level j holds the contour set of the offset by
\* -j * offset_interval; with STEP, levels 2m and 2m+1 hold the same contour
\* set, that of the offset by -m * offset_interval.
C7_LevelsOfOffsets ==
    /\ OffsetsCalculated =>
          IF slope_style = "STEP"
          THEN /\ Len(contours) = 2 * resolution
               /\ \A m \in 0..(resolution - 1) :
                      /\ contours[2 * m + 1] = ContourOfOffset(m)
                      /\ contours[2 * m + 2] = ContourOfOffset(m)
          ELSE /\ Len(contours) = resolution
               /\ \A j \in 0..(resolution - 1) :
                      contours[j + 1] = ContourOfOffset(j)
    /\ LevelsBuilt =>
          /\ Len(verts_by_level) = Len(contours)
          /\ \A k \in 1..Len(contours) :
                 Len(verts_by_level[k]) = SeqSum(contours[k])

\* a STEP mesh of three offsets with three different contour sets has its
\* six levels
C7_Witness ==
    /\ LevelsBuilt
    /\ slope_style = "STEP"
    /\ resolution = 3
    /\ Len(verts_by_level) = 6
    /\ offset_interval = 1
    /\ offset_result[0] = <<3, 4>>
    /\ offset_result[-1] = <<3>>
    /\ offset_result[-2] = <<>>
    /\ contours[5] = <<>>
    /\ Len(verts_by_level[1]) = 7

(***************************************************************************)
(* Mesh generation: the cleanup.                                           *)
(***************************************************************************)
\* the cleanup of the mesh of the stroke at hand is done
CleanedUp == pc = "mesh_object"

\* C8: after the cleanup step of mesh generation no face of the generated
\* mesh has more than 4 vertices, and every face with at most 4 vertices
\* that the fill steps produced is still present.
C8_CleanupKeepsSmallFaces ==
    CleanedUp =>
        /\ \A face \in faces : face_verts[face] <= 4
        /\ \A face \in DOMAIN face_verts :
               face_verts[face] <= 4 => face \in faces

\* the fill steps produced a triangle, a quad and a face of five vertices;
\* the cleanup removed the last one only
C8_Witness ==
    /\ CleanedUp
    /\ \E a, b, c \in DOMAIN face_verts :
          /\ face_verts[a] = 3 /\ a \in faces
          /\ face_verts[b] = 4 /\ b \in faces
          /\ face_verts[c] = 5 /\ c \notin faces

(***************************************************************************)
(* The operators without the clipping library.                             *)
(***************************************************************************)
\* the positions up to the import of pyclipper
BeforeImport == {EntryPoint[o] : o \in DOMAIN EntryPoint} \cup {"boollast_import"}

\* the operator has returned after one report of the missing dependency
ReportedAndFinished == pc = "done" /\ report = <<MissingDependencyMsg>>

\* C6: when the clipping library cannot be imported, every operator reports
\* the missing dependency and finishes immediately, without executing any
\* later step and without having changed any host state (mode, selection,
\* strokes, meshes).
C6_MissingDependencyNoEffect ==
    /\ [](~ pyclipper_available => pc \in BeforeImport \/ ReportedAndFinished)
    /\ [][~ pyclipper_available => UNCHANGED <<hostVars, sceneVars>>]_vars

(***************************************************************************)
(* The projector: round trips.                                             *)
(***************************************************************************)
\* all the calls of the projector have returned
Projected == operator = "projector" /\ pc = "done"

\* C9: for each of the three working planes, every 2D point c, depth d and
\* scale factor s > 0: vec3_to_vec2(vec2_to_vec3(s*c, d, s)) = c and
\* vec3_to_depth(vec2_to_vec3(c, d, s)) = d, and get_depth_direction()
\* equals vec2_to_vec3((0,0), depth = 1).
C9_ProjectorRoundTrip ==
    Projected =>
        /\ proj_out.back2 = proj_co
        /\ proj_out.depth = proj_depth
        /\ proj_out.direction = proj_out.unit3

\* the point (1, -1) at depth -1 with the scale factor 1/2 in the plane Y-Z
C9_Witness ==
    /\ Projected
    /\ working_plane = "Y-Z"
    /\ proj_co = <<RInt(1), RInt(-1)>>
    /\ proj_depth = RInt(-1)
    /\ proj_scale = <<1, 2>>
    /\ proj_out.scaled3 = <<RInt(-1), RInt(1), RInt(1)>>
    /\ proj_out.plain3 = <<RInt(-1), RInt(2), RInt(2)>>

(***************************************************************************)
(* The polygon converter: the scale factor.                                *)
(***************************************************************************)
\* stroke_to_poly(stroke_list, scale = True) has returned
ScaleComputed ==
    /\ operator = "stroke_to_poly"
    /\ pc = "done"
    /\ scale
    /\ fixed_scale_factor = None

\* the 2D point number p of stroke number k
InputPoint(k, p) == vec3_to_vec2(working_plane, stroke_points[k][p])

\* the 2D points of all the strokes
InputPointSet ==
    {InputPoint(kp[1], kp[2]) :
        kp \in {q \in (1..Len(stroke_points)) \X (1..MaxPoints) :
                   q[2] <= Len(stroke_points[q[1]])}}

\* width and height of the bounding box of the strokes
BoxWidth ==
    RSub(RMaxOf({co[1] : co \in InputPointSet}), RMinOf({co[1] : co \in InputPointSet}))

BoxHeight ==
    RSub(RMaxOf({co[2] : co \in InputPointSet}), RMinOf({co[2] : co \in InputPointSet}))

\* the bounding box of the strokes has non-zero width and height
BoxNotFlat ==
    /\ InputPointSet # {}
    /\ BoxWidth[1] # 0
    /\ BoxHeight[1] # 0

\* the k-th polygon is the k-th stroke with every coordinate multiplied by
\* scale_factor, in the order of the points or, where the orientation is
\* corrected, in the reverse order
OneScaleInOrder ==
    /\ Len(poly_list) = Len(stroke_points)
    /\ \A k \in 1..Len(poly_list) :
          LET scaled == [p \in 1..Len(stroke_points[k]) |->
                            Scaled(InputPoint(k, p), scale_factor)]
          IN  \/ poly_list[k] = scaled
              \/ correct_orientation /\ poly_list[k] = Reverse(scaled)

\* the statement as written: s * min(width, height) = SCALE_CONSTANT, one s
\* for every coordinate, the polygons in the order of the strokes
C10_ScaleTimesMinExtent ==
    ScaleComputed /\ BoxNotFlat =>
        /\ RMul(scale_factor, RMin(BoxWidth, BoxHeight)) = RInt(SCALE_CONSTANT)
        /\ OneScaleInOrder

\* C10: for every stroke set whose bounding box has non-zero width and
\* height, the scale factor s computed by stroke_to_poly(scale=True)
\* satisfies s * min(width, height, SCALE_CONSTANT) = SCALE_CONSTANT, that
\* is s * min(width, height) = SCALE_CONSTANT when neither extent is larger
\* than SCALE_CONSTANT and s = 1 otherwise; this one s is applied to every
\* coordinate of every polygon, and the polygons are returned in the order
\* of the input strokes.
C10_ScaleTimesCappedExtent ==
    ScaleComputed /\ BoxNotFlat =>
        /\ RMul(scale_factor, RMin(RMin(BoxWidth, BoxHeight), RInt(SCALE_CONSTANT)))
              = RInt(SCALE_CONSTANT)
        /\ OneScaleInOrder

\* two strokes of one point each, a box of width 1 and height
\* 2 * SCALE_CONSTANT: the factor is SCALE_CONSTANT
C10_Witness ==
    /\ ScaleComputed
    /\ BoxNotFlat
    /\ Len(stroke_points) = 2
    /\ BoxWidth = RInt(1)
    /\ BoxHeight = RInt(2 * SCALE_CONSTANT)
    /\ scale_factor = RInt(SCALE_CONSTANT)
    /\ poly_list[1] # poly_list[2]

(***************************************************************************)
(* The polygon converter: the orientation pass.                            *)
(***************************************************************************)
\* the step in which stroke_to_poly(correct_orientation = True) returns
FirstPass == pc = "poly_convert" /\ pc' = "done" /\ correct_orientation

\* the step of the second pass over the returned list
SecondPass == pc = "done" /\ pc' = "corrected_again" /\ correct_orientation

\* the first pass leaves every polygon with Orientation true: one that had
\* it in its point order, any other in exactly the opposite order
FirstPassCorrects ==
    /\ Len(poly_list') = Len(BeforeCorrection)
    /\ \A k \in 1..Len(poly_list') :
          /\ Orientation(poly_list'[k])
          /\ Orientation(BeforeCorrection[k]) =>
                poly_list'[k] = BeforeCorrection[k]
          /\ ~ Orientation(BeforeCorrection[k]) =>
                poly_list'[k] = Reverse(BeforeCorrection[k])

\* C11: the orientation correction of stroke_to_poly is idempotent: after
\* one pass every polygon has Orientation true, a polygon that already has
\* it keeps its point order and one that does not is exactly reversed, and
\* applying the correction a second time changes nothing.
C11_OrientationPassIdempotent ==
    [][/\ FirstPass => FirstPassCorrects
       /\ SecondPass => poly_list' = poly_list]_vars

\* a triangle that was reversed and the same triangle in the opposite
\* order that was kept, after the second pass
C11_Witness ==
    /\ operator = "orientation"
    /\ pc = "corrected_again"
    /\ correct_orientation
    /\ Len(stroke_points) = 2
    /\ orientation = <<FALSE, TRUE>>
    /\ Len(poly_list[1]) = 3
    /\ poly_list[1] = Reverse(BeforeCorrection[1])
    /\ poly_list[2] = BeforeCorrection[2]
    /\ Area(poly_list[1]) = Area(poly_list[2])
    /\ Area(poly_list[1]) # RInt(0)

(***************************************************************************)
(* Offset selected: the calls of the clipper.                              *)
(***************************************************************************)
\* the calls of Execute made so far whose path is a stroke
ForwardCalls == {k \in 1..Len(clipper_log) : clipper_log[k].input[1] = "stroke"}

\* those made for the stroke st
ForwardCallsOf(st) == {k \in ForwardCalls : clipper_log[k].input[2] = st}

\* the strokes that were selected when the operator began
OffsetSelection == UNION {SelectedAtStart(f) : f \in 1..Len(select_map)}

\* every stroke is the path of one call at most and, once the operator has
\* returned, every stroke of the selection is the path of one call
OncePerStroke ==
    /\ \A st \in DOMAIN select : Cardinality(ForwardCallsOf(st)) <= 1
    /\ pc = "done" => \A st \in OffsetSelection :
                          Cardinality(ForwardCallsOf(st)) = 1

\* the calls come in pairs: an offset of a stroke by some d, then an offset
\* of the result of that call by -d
PairsOfCalls ==
    /\ Len(clipper_log) % 2 = 0
    /\ \A k \in 1..Len(clipper_log) :
          IF k % 2 = 1
          THEN k \in ForwardCalls
          ELSE /\ clipper_log[k].input = <<"results", k - 1>>
               /\ clipper_log[k].delta = RNeg(clipper_log[k - 1].delta)
               /\ clipper_log[k].frame = clipper_log[k - 1].frame

\* the distance of the forward call k has the sign of offset_amount, or the
\* opposite sign for a stroke whose offset is inverted
ForwardDirection(k) ==
    clipper_log[k].delta[1] * offset_amount
        * InvertOffset(clipper_log[k].input[2]) > 0

\* C12: in the Corner mode (ET_CLOSE_CORNER) of the offset operator each
\* stroke is offset twice in sequence, first by the effective distance d,
\* then the result set of the first offset by exactly -d; in the Fill and
\* Line modes exactly one offset by d is executed per stroke.
C12_CornerOffsetsTwice ==
    operator = "offset_selected" /\ pc # "offset_import" =>
        /\ OncePerStroke
        /\ \A k \in ForwardCalls : ForwardDirection(k)
        /\ IF end_type_mode = "ET_CLOSE_CORNER"
           THEN PairsOfCalls
           ELSE ForwardCalls = 1..Len(clipper_log)

\* the Corner mode has returned after two strokes, a solid one and a holdout
\* one, each offset forth and back
C12_Witness ==
    /\ operator = "offset_selected"
    /\ pc = "done"
    /\ end_type_mode = "ET_CLOSE_CORNER"
    /\ Len(clipper_log) = 4
    /\ clipper_log[1].results > 0
    /\ clipper_log[2].results > 0
    /\ clipper_log[3].delta # clipper_log[1].delta
    /\ clipper_log[4].delta = RNeg(clipper_log[3].delta)
    /\ clipper_log[4].delta[1] # 0

(***************************************************************************)
(* Offset selected: a stroke whose offset is empty.                        *)
(***************************************************************************)
\* a step of the loop of line 311 for a stroke whose last offset returns no
\* polygon
EmptyOffsetStep ==
    /\ pc = "offset_stroke"
    /\ Len(clipper_log') > Len(clipper_log)
    /\ clipper_log'[Len(clipper_log')].results = 0

\* the step creates no stroke, removes the original stroke and nothing else
\* unless keep_original is set, and goes on with the next stroke of the
\* frame, the next frame or the post-processing
EmptyOffsetSkipped ==
    LET stroke == stroke_info[offset_j].stroke
    IN  /\ generated_strokes' = generated_strokes
        /\ DOMAIN select' = DOMAIN select
        /\ strokes' = [f \in 1..Len(strokes) |->
                          IF offset_keep_original THEN strokes[f]
                          ELSE SelectSeq2(strokes[f], Range(strokes[f]) \ {stroke})]
        /\ IF offset_j < Len(stroke_info)
           THEN pc' = "offset_stroke" /\ offset_j' = offset_j + 1
           ELSE IF frame_idx < Len(strokes)
           THEN pc' = "offset_frames" /\ frame_idx' = frame_idx + 1
           ELSE pc' = "offset_post"

\* the operator has returned without an error after an offset of every
\* stroke of the selection
AllStrokesOffset ==
    pc \notin {"offset_import", "offset_frames", "offset_stroke", "offset_post"} =>
        /\ pc = "done"
        /\ \A st \in OffsetSelection : ForwardCallsOf(st) # {}

\* C13: when the offset of a stroke yields an empty result set, the offset
\* operator creates no stroke for that stroke, raises no error and goes on
\* to process every remaining stroke and frame; the original stroke is
\* still removed unless keep_original is set.
C13_EmptyOffsetSkipped ==
    /\ [](operator = "offset_selected" => AllStrokesOffset)
    /\ [][EmptyOffsetStep => EmptyOffsetSkipped]_vars

\* the operator has returned: the offset of the stroke of the first frame
\* was empty and the stroke is gone, the stroke of the second frame was
\* replaced by its offset
C13_Witness ==
    /\ operator = "offset_selected"
    /\ pc = "done"
    /\ ~ offset_keep_original
    /\ Len(clipper_log) = 2
    /\ clipper_log[1].results = 0
    /\ clipper_log[1].frame = 1
    /\ clipper_log[2].results = 1
    /\ clipper_log[2].frame = 2
    /\ strokes = << <<>>, <<3>> >>
    /\ generated_strokes = <<3>>

(***************************************************************************)
(* Hole processing: a frame with fewer than two selected polygons.         *)
(***************************************************************************)
\* process_one_frame works on a frame with fewer than 2 selected polygons
FewPolygons ==
    /\ operator = "hole_processing"
    /\ pc \in {"hole_frame", "hole_loop", "hole_frame_end"}
    /\ Cardinality({s \in Range(strokes[frame_idx]) :
                       IF pc = "hole_frame" THEN select[s]
                       ELSE s \in Range(to_process)}) < 2

\* no stroke's material changes while such a frame is processed
C14_FewPolygonsKeepMaterial ==
    [][FewPolygons => UNCHANGED <<material_index, material_slots>>]_vars

\* C14: hole processing of a frame with fewer than 2 selected polygons is a
\* no-op: no stroke's material and no stroke's position in the frame's
\* stroke order changes, also when rearrange is enabled.
C14_FewPolygonsNoOp ==
    [][FewPolygons => UNCHANGED <<material_index, material_slots, strokes>>]_vars

\* the one selected polygon of a frame of two strokes was the lower one and
\* has become the upper one
C14_MovedToTop ==
    /\ operator = "hole_processing"
    /\ pc = "done"
    /\ rearrange
    /\ Len(to_process) = 1
    /\ to_process = <<1>>
    /\ strokes = << <<2, 1>> >>

(***************************************************************************)
(* Hole processing: the batch of an iteration.                             *)
(***************************************************************************)
\* the polygons not processed before iteration k
Unprocessed(k) == (1..NumPolys) \ ProcessedBefore(k)

\* the polygons of S with an edge to polygon i: the ones that lie inside i
EdgesInto(i, S) == {j \in S : <<j, i>> \in ContainmentEdges}

\* the polygons of S with an edge from polygon i: the ones i lies inside
EdgesFrom(i, S) == {j \in S : <<i, j>> \in ContainmentEdges}

\* the relation is the one built at line 109 with the columns of the
\* processed polygons cleared
ColumnsCleared ==
    \A i, j \in 1..NumPolys :
        relation_mat[i][j] =
            IF j \notin processed /\ <<i, j>> \in ContainmentEdges THEN 1 ELSE 0

\* the statement as written: the batch of an iteration is made of the
\* unprocessed polygons without an incoming edge from an unprocessed one
C15_BatchHasNoIncomingEdge ==
    operator = "hole_processing" /\ Iterations > 0 =>
        /\ \A k \in 1..Iterations :
              BatchOf(k) = {i \in Unprocessed(k) : EdgesInto(i, Unprocessed(k)) = {}}
        /\ ColumnsCleared

\* C15: in each peeling iteration the batch consists of exactly the
\* unprocessed polygons with no containment edge of their own to an
\* unprocessed polygon (the outermost remaining polygons), where an edge
\* i->j means polygon i lies inside polygon j: zero outgoing edges, not
\* zero incoming ones; processing a polygon clears its column of the
\* relation.
C15_BatchIsOutermost ==
    operator = "hole_processing" /\ Iterations > 0 =>
        /\ \A k \in 1..Iterations :
              BatchOf(k) = {i \in Unprocessed(k) : EdgesFrom(i, Unprocessed(k)) = {}}
        /\ ColumnsCleared

\* polygon 1 in polygon 2 in polygon 3: three batches, the outermost first
C15_Witness ==
    /\ operator = "hole_processing"
    /\ pc = "done"
    /\ NumPolys = 3
    /\ ContainmentEdges = {<<1, 2>>, <<2, 3>>, <<1, 3>>}
    /\ Iterations = 3
    /\ BatchOf(1) = {3}
    /\ BatchOf(2) = {2}
    /\ BatchOf(3) = {1}
    /\ EdgesInto(3, 1..3) = {1, 2}
    /\ EdgesFrom(3, 1..3) = {}

(***************************************************************************)
(* Hole processing: the hole flags of the fill colours.                    *)
(***************************************************************************)
\* is_hole_map and the material indices at the end of iteration k
FlagsAfter(k) == IF k < Iterations THEN peel_log[k + 1].seen ELSE is_hole_map
MaterialsAfter(k) == IF k < Iterations THEN peel_log[k + 1].mi ELSE material_index

\* the fill colour of polygon i
ColorOf(i) == vertex_color_fill[to_process[i]]

\* the material of polygon i when iteration k began
MaterialBefore(k, i) == peel_log[k].slots[peel_log[k].mi[to_process[i]]]

\* polygon i got another material in iteration k
ChangedIn(k, i) ==
    MaterialsAfter(k)[to_process[i]] # peel_log[k].mi[to_process[i]]

\* every polygon of batch k was treated by the flag its colour had when the
\* iteration began
BatchSeesFlagsBefore(k) ==
    \A i \in BatchOf(k) :
        ChangedIn(k, i) <=>
            /\ peel_log[k].seen[ColorOf(i)]
            /\ MaterialBefore(k, i).show_fill
            /\ ~ MaterialBefore(k, i).use_fill_holdout

\* after iteration k the flags of the colours of the batch are inverted, the
\* others are as before
FlagsFlippedOnce(k) ==
    \A c \in DOMAIN peel_log[k].seen :
        FlagsAfter(k)[c] =
            IF \E i \in BatchOf(k) : ColorOf(i) = c
            THEN ~ peel_log[k].seen[c] ELSE peel_log[k].seen[c]

\* C16: with separate_colors on, every polygon of a batch sees the hole
\* flag of its colour as it was before the batch, and at the end of the
\* iteration the flag of a colour is inverted if and only if at least one
\* polygon of that colour, line-only or not, was processed in that
\* iteration; it is inverted once however many polygons of that colour the
\* batch had, and the flags of all other colours are unchanged.
C16_FlagsPerColor ==
    operator = "hole_processing" /\ separate_colors =>
        \A k \in 1..Iterations :
            /\ DOMAIN FlagsAfter(k) = DOMAIN peel_log[k].seen
            /\ BatchSeesFlagsBefore(k)
            /\ FlagsFlippedOnce(k)

\* two outermost polygons of colour 1, one of them line-only, and a solid
\* polygon of colour 2 inside: the flag of colour 1 is true after the first
\* iteration, the one of colour 2 is false and the inner polygon keeps its
\* material
C16_Witness ==
    /\ operator = "hole_processing"
    /\ pc = "done"
    /\ separate_colors
    /\ NumPolys = 3
    /\ Iterations = 2
    /\ Cardinality(BatchOf(1)) = 2
    /\ \A i \in BatchOf(1) : ColorOf(i) = 1
    /\ \E i \in BatchOf(1) : ~ MaterialBefore(1, i).show_fill
    /\ \A i \in BatchOf(2) : ColorOf(i) = 2 /\ MaterialBefore(2, i).show_fill
                                            /\ ~ ChangedIn(2, i)
    /\ FlagsAfter(1)[1]
    /\ ~ FlagsAfter(1)[2]
    /\ FlagsAfter(2)[2]

(***************************************************************************)
(* Hole processing: line-only strokes in the containment relation.         *)
(***************************************************************************)
\* polygon j of to_process is a line-only stroke
LineOnly(j) == is_stroke_line(material_slots, material_index[to_process[j]])

\* polygon i lies inside no polygon but line-only ones
InsideLinesOnly(i) ==
    \A j \in 1..NumPolys : (j # i /\ inside[i][j]) => LineOnly(j)

\* C17: the containment relation never has an edge i->i and never an edge
\* i->j when j is a line-only (no fill) stroke; hence a polygon that lies
\* inside line-only shapes only is treated as outermost and is processed in
\* the first iteration.
C17_NoEdgeToLineOnly ==
    operator = "hole_processing" /\ pc \in {"hole_loop", "hole_frame_end", "done"} =>
        /\ \A i \in 1..NumPolys : relation_mat[i][i] = 0
        /\ \A i, j \in 1..NumPolys : LineOnly(j) => relation_mat[i][j] = 0
        /\ Iterations > 0 =>
              \A i \in 1..NumPolys : InsideLinesOnly(i) => i \in BatchOf(1)

\* a solid polygon inside a line-only one and inside nothing else is in
\* the first batch, together with the line-only one; a third polygon, inside
\* the solid one, waits for the second iteration
C17_Witness ==
    /\ operator = "hole_processing"
    /\ pc = "done"
    /\ NumPolys = 3
    /\ LineOnly(2) /\ ~ LineOnly(1) /\ ~ LineOnly(3)
    /\ inside[1][2] /\ ~ inside[1][3]
    /\ inside[3][1]
    /\ BatchOf(1) = {1, 2}
    /\ Iterations = 2
    /\ BatchOf(2) = {3}

(***************************************************************************)
(* Hole processing: the order in which nested polygons are processed.      *)
(***************************************************************************)
\* the position of stroke st in the frame, counted from the bottom
PositionOf(st) == CHOOSE p \in 1..Len(strokes[1]) : strokes[1][p] = st

\* the polygons processed so far
ProcessedSoFar == UNION {BatchOf(k) : k \in 1..Iterations}

\* no polygon is in two batches
ProcessedOnce ==
    \A k, m \in 1..Iterations : k # m => BatchOf(k) \cap BatchOf(m) = {}

\* a polygon of batch k lies only in polygons of earlier batches
ContainersFirst ==
    \A p \in ContainmentEdges :
        \A k \in 1..Iterations :
            p[1] \in BatchOf(k) => p[2] \in ProcessedBefore(k)

\* a processed polygon is above every polygon it lies in
InnerAbove ==
    \A p \in ContainmentEdges :
        p[1] \in ProcessedSoFar =>
            PositionOf(to_process[p[1]]) > PositionOf(to_process[p[2]])

SelectedIn(f) ==
    IF layer_lock[f] THEN {}
    ELSE {s \in DOMAIN select_map[f] : select_map[f][s] > 0}

\* the subjects of frame group f: all but the clips of line 501
SubjectsIn(f) ==
    Cardinality(SelectedIn(f))
        - Min({num_clips, Cardinality(SelectedIn(f)) - 1})

\* the executions frame group f asks for
ExecutionsOf(f) ==
    IF Cardinality(SelectedIn(f)) < 2 THEN 0
    ELSE IF processing_seq = "ALL" THEN 1
    ELSE SubjectsIn(f)

\* the executions of the frame groups 1..f
ExecutionsUpTo(f) == SeqSum([g \in 1..f |-> ExecutionsOf(g)])

\* the executions of the frame group that has just been composed
ExecutionsOfGroup ==
    {k \in 1..Len(clipper_log) : k > ExecutionsUpTo(frame_idx - 1)}

\* every finished frame group has had its executions and no other
ExecutedPerGroup ==
    pc \in {"bool_delete", "bool_post", "done"} =>
        Len(clipper_log) = ExecutionsUpTo(frame_idx)

\* batched mode: the one execution of the group has every subject as
\* subject and every clip as clip
BatchedPaths ==
    (pc = "bool_delete" /\ processing_seq = "ALL") =>
        \A k \in ExecutionsOfGroup :
            /\ clipper_log[k].subjects = subject_set
            /\ clipper_log[k].clips = clip_set

\* sequential mode: one execution for each subject, with that subject alone
\* and the full clip set
SequentialPaths ==
    (pc = "bool_delete" /\ processing_seq = "EACH") =>
        /\ \A i \in subject_set :
              Cardinality({k \in ExecutionsOfGroup :
                              clipper_log[k].subjects = {i}}) = 1
        /\ \A k \in ExecutionsOfGroup :
              /\ \E i \in subject_set : clipper_log[k].subjects = {i}
              /\ clipper_log[k].clips = clip_set

\* C19: in Boolean-of-Selected the batched mode executes the clipper exactly
\* once for each frame group that is composed, with every subject as subject
\* and every clip as clip; the sequential mode executes it exactly once for
\* each subject, with that subject alone and the full clip set, so that no
\* path of an earlier execution is present in a later one
C19_ExecutionsPerMode ==
    operator = "bool_selected" =>
        /\ ExecutedPerGroup
        /\ BatchedPaths
        /\ SequentialPaths

\* a sequential run of two subjects against one clip has reached the
\* deletion after two executions
C19_Witness ==
    /\ operator = "bool_selected"
    /\ pc = "bool_delete"
    /\ processing_seq = "EACH"
    /\ Cardinality(subject_set) = 2
    /\ Cardinality(clip_set) = 1
    /\ Len(clipper_log) = 2
    /\ clipper_log[1].subjects # clipper_log[2].subjects


(***************************************************************************)
(* The references Boolean-of-Selected allows for its new strokes.          *)
(***************************************************************************)
\* a step of lines 532-541 or of one iteration of lines 544-554
BoolExecuteStep ==
    /\ operator = "bool_selected"
    /\ pc \in {"bool_all", "bool_each"}
    /\ Len(clipper_log') = Len(clipper_log) + 1

\* the subject of the execution of a sequential step
CurrentSubject ==
    CHOOSE i \in subject_set : clipper_log'[Len(clipper_log')].subjects = {i}

\* every polygon of the frame group
AllPolygons == 1..Len(stroke_info)

\* the mask the claim gives for the step
MaskOfRole ==
    IF stroke_inherited = "SUBJECT"
    THEN IF processing_seq = "ALL" THEN clip_set
         ELSE AllPolygons \ {CurrentSubject}
    ELSE IF stroke_inherited = "CLIP" THEN subject_set
    ELSE {}

\* C20: the mask Boolean-of-Selected hands to poly_to_stroke allows the
\* configured role only: with SUBJECT as source every clip polygon is masked
\* out (in sequential mode every polygon except the current subject), with
\* CLIP as source every subject is masked out, and with AUTO no polygon is
\* masked out
C20_MaskOfConfiguredRole ==
    [][BoolExecuteStep => ref_stroke_mask' = MaskOfRole]_vars

\* a sequential run with SUBJECT as source has made a stroke for each of its
\* two subjects, the second with the first subject and the clip masked out
C20_Witness ==
    /\ operator = "bool_selected"
    /\ pc = "bool_delete"
    /\ processing_seq = "EACH"
    /\ stroke_inherited = "SUBJECT"
    /\ Cardinality(subject_set) = 2
    /\ Len(clipper_log) = 2
    /\ Len(generated_strokes) = 2
    /\ Cardinality(ref_stroke_mask) = 2
    /\ ref_stroke_mask # clip_set
    /\ subject_set \cap ref_stroke_mask # {}


(***************************************************************************)
(* The distance of an offset.                                              *)
(***************************************************************************)
\* the offset of one stroke: an iteration of the loop of line 311
OffsetStep ==
    /\ operator = "offset_selected"
    /\ pc = "offset_stroke"
    /\ Len(clipper_log') > Len(clipper_log)

\* the call of clipper.Execute of line 330 in the step
ForwardCall == clipper_log'[Len(clipper_log) + 1]

\* the stroke that is offset in the step
OffsetStrokeOf == stroke_info[offset_j].stroke

\* the frame gap times the falloff per frame
FalloffLoss ==
    RMul(RInt(Abs(frame_current - frame_idx)), multiframe_falloff)

\* the falloff factor max(0, 1 - frame_gap * multiframe_falloff), 1 when
\* multiframe editing is off
Falloff ==
    IF ~ use_multiedit THEN RInt(1)
    ELSE IF RLess(RInt(1), FalloffLoss) THEN RInt(0)
    ELSE RSub(RInt(1), FalloffLoss)

\* the offset is negated: invert_holdout is on and the material of the
\* stroke has fill holdout
Negated ==
    /\ invert_holdout
    /\ material_slots[material_index[OffsetStrokeOf]].use_fill_holdout

\* offset_amount * scale_factor * falloff
PlainDistance == RMul(RMul(RInt(offset_amount), scale_factor), Falloff)

\* C21: the distance the offset operator passes to the clipper for a stroke
\* is offset_amount * scale_factor * falloff, negated exactly when
\* invert_holdout is on and the material of the stroke has fill holdout; the
\* falloff factor lies in [0, 1] and is 1 when multiframe editing is off, so
\* that the distance never has the sign opposite to the one asked for
C21_OffsetDistance ==
    [][OffsetStep =>
          /\ ForwardCall.delta = IF Negated THEN RNeg(PlainDistance)
                                 ELSE PlainDistance
          /\ ~ RLess(Falloff, RInt(0))
          /\ ~ RLess(RInt(1), Falloff)
          /\ ~ use_multiedit => Falloff = RInt(1)
          /\ ForwardCall.delta[1] * offset_amount
                * (IF Negated THEN -1 ELSE 1) >= 0]_vars

\* with multiframe editing on and a falloff of 1 per frame, a stroke of the
\* current frame was offset by the full distance and a stroke of the next
\* frame by none
C21_Witness ==
    /\ operator = "offset_selected"
    /\ use_multiedit
    /\ invert_holdout
    /\ multiframe_falloff = RInt(1)
    /\ frame_current = 1
    /\ Len(clipper_log) = 2
    /\ clipper_log[1].frame = 1
    /\ clipper_log[1].delta[1] # 0
    /\ clipper_log[2].frame = 2
    /\ clipper_log[2].delta[1] = 0


(***************************************************************************)
(* The heights of the levels of a mesh.                                    *)
(***************************************************************************)
\* one interval of height: |offset_amount / resolution|
HeightInterval == RAbs(RNorm(offset_amount, resolution))

\* |k * offset_amount / resolution|
Intervals(k) == RAbs(RNorm(k * offset_amount, resolution))

\* the vertices created so far, by their place in bm.verts
Verts == 1..Len(bm_verts)

\* LINEAR: level j has the height |j * offset_amount / resolution|
LinearHeights ==
    slope_style = "LINEAR" =>
        \A v \in Verts : bm_verts[v].height = Intervals(bm_verts[v].level)

\* STEP: level j has the height |floor((j+1)/2) * offset_amount / resolution|
StepHeights ==
    slope_style = "STEP" =>
        \A v \in Verts :
            bm_verts[v].height = Intervals((bm_verts[v].level + 1) \div 2)

\* STEP: the levels 2m-1 and 2m have the same height, the levels 2m and
\* 2m+1 differ by one interval
StepsAndRisers ==
    slope_style = "STEP" =>
        \A v, w \in Verts :
            bm_verts[w].level = bm_verts[v].level + 1 =>
                IF bm_verts[v].level % 2 = 1
                THEN bm_verts[w].height = bm_verts[v].height
                ELSE RSub(bm_verts[w].height, bm_verts[v].height)
                         = HeightInterval

\* the height never decreases with the level and is 0 on level 0
HeightsRise ==
    slope_style \in {"LINEAR", "STEP"} =>
        /\ \A v, w \in Verts :
              bm_verts[v].level <= bm_verts[w].level =>
                  ~ RLess(bm_verts[w].height, bm_verts[v].height)
        /\ \A v \in Verts : bm_verts[v].level = 0 => bm_verts[v].height = RInt(0)

\* C22: in mesh generation level j has the height
\* |j * offset_amount / resolution| for LINEAR and
\* |floor((j+1)/2) * offset_amount / resolution| for STEP, where the levels
\* 2m-1 and 2m have the same height and the levels 2m and 2m+1 differ by one
\* interval; in both styles the height never decreases with j and level 0
\* has the height 0
C22_LevelHeights ==
    operator = "mesh_generation" =>
        /\ LinearHeights
        /\ StepHeights
        /\ StepsAndRisers
        /\ HeightsRise

\* a STEP mesh of a negative offset has vertices on the levels 0 to 3: a
\* riser from 0 to 1, a step from 1 to 2 and a riser from 2 to 3
C22_Witness ==
    /\ operator = "mesh_generation"
    /\ pc = "done"
    /\ slope_style = "STEP"
    /\ offset_amount < 0
    /\ Len(bm_verts) >= 4
    /\ \A j \in 0..3 : bm_verts[j + 1].level = j
    /\ bm_verts[2].height # RInt(0)
    /\ bm_verts[3].height = bm_verts[2].height
    /\ bm_verts[4].height # bm_verts[3].height


(***************************************************************************)
(* The heights of a dome.                                                  *)
(***************************************************************************)
\* r = |offset_amount|
SphereRad == RInt(Abs(offset_amount))

\* r^2 - (r - h)^2 for h = |j * offset_amount / resolution|
UnderRoot(j) ==
    RSub(RMul(SphereRad, SphereRad),
         RMul(RSub(SphereRad, Intervals(j)), RSub(SphereRad, Intervals(j))))

\* C23: for the SPHERE slope style, with r = |offset_amount| and
\* h = |j * offset_amount / resolution|, the value r^2 - (r - h)^2 under the
\* root is not negative on any level j = 0..resolution-1, so that the height
\* of every level is defined and lies in [0, r]
C23_SphereHeightDefined ==
    (operator = "mesh_generation" /\ slope_style = "SPHERE") =>
        \A v \in Verts :
            /\ bm_verts[v].level \in 0..(resolution - 1)
            /\ bm_verts[v].height = [sqrt |-> UnderRoot(bm_verts[v].level)]
            /\ ~ RLess(UnderRoot(bm_verts[v].level), RInt(0))
            /\ ~ RLess(RMul(SphereRad, SphereRad), UnderRoot(bm_verts[v].level))

\* a dome has vertices on its first level, of height 0, and on its last
\* level, below the radius
C23_Witness ==
    /\ operator = "mesh_generation"
    /\ pc = "done"
    /\ slope_style = "SPHERE"
    /\ offset_amount # 0
    /\ Len(bm_verts) = resolution
    /\ bm_verts[1].height = [sqrt |-> RInt(0)]
    /\ bm_verts[resolution].level = resolution - 1
    /\ RLess(RInt(0), bm_verts[resolution].height.sqrt)
    /\ RLess(bm_verts[resolution].height.sqrt, RMul(SphereRad, SphereRad))


(***************************************************************************)
(* The risers of a stepped mesh.                                           *)
(***************************************************************************)
\* the level the loop of line 140 has just built, counted from 0
LastLevel == level_j - 1

\* the vertices of level j
VertsOf(j) == verts_by_level[j + 1]

\* a level of the stroke at hand has been built
LevelBuilt ==
    /\ operator = "mesh_generation"
    /\ pc \in {"mesh_level", "mesh_cap"}
    /\ level_j > 0
    /\ Len(verts_by_level) = level_j

\* the riser edges of the odd level j: edge v joins vertex v of the level
\* with vertex v of the level before it
Risers(j) ==
    [v \in 1..Len(VertsOf(j)) |-> <<VertsOf(j)[v], VertsOf(j - 1)[v]>>]

\* the two ends of every riser are the same point of the same contour: the
\* levels are two copies of one contour, a whole contour apart in bm.verts
SameContourPoint(j) ==
    /\ contours[j + 1] = contours[j]
    /\ \A v \in 1..Len(VertsOf(j)) :
          VertsOf(j)[v] - VertsOf(j - 1)[v] = SeqSum(contours[j])

\* C24: in STEP style, on every odd level j the number of vertices of level
\* j equals that of level j-1 and riser edge v joins vertex v of level j
\* with vertex v of level j-1, which both come from the same contour point;
\* no riser index is out of range, whatever the offsets return
C24_RisersJoinCopies ==
    (LevelBuilt /\ slope_style = "STEP") =>
        IF LastLevel % 2 = 1
        THEN /\ Len(VertsOf(LastLevel)) = Len(VertsOf(LastLevel - 1))
             /\ edge_extruded = Risers(LastLevel)
             /\ SameContourPoint(LastLevel)
        ELSE edge_extruded = <<>>

\* level 3 of a stepped mesh has risers, after the contour shrank from two
\* polygons to one
C24_Witness ==
    /\ LevelBuilt
    /\ slope_style = "STEP"
    /\ LastLevel = 3
    /\ Len(contours[1]) = 2
    /\ Len(contours[3]) = 1
    /\ Len(edge_extruded) = 3


(***************************************************************************)
(* The positions of the vertices of a mesh.                                *)
(***************************************************************************)
\* the slope styles whose heights are fractions
FlatStyles == {"LINEAR", "STEP"}

\* C25: every vertex of the generated mesh is placed at
\* vec2_to_vec3(co, height, scale_factor), the projector inverse of its
\* contour point at the height of its level, whichever working plane is
\* active
C25_VertexAtProjectorInverse ==
    (operator = "mesh_generation" /\ slope_style \in FlatStyles) =>
        \A v \in Verts :
            bm_verts[v].co = vec2_to_vec3(working_plane, bm_verts[v].point,
                                          bm_verts[v].height, scale_factor)

\* every vertex of the generated mesh is placed as the projector inverse of
\* the X-Z plane places it
C25_VertexInXZLayout ==
    (operator = "mesh_generation" /\ slope_style \in FlatStyles) =>
        \A v \in Verts :
            bm_verts[v].co = vec2_to_vec3("X-Z", bm_verts[v].point,
                                          bm_verts[v].height, scale_factor)

\* with the working plane X-Y a vertex of a level above the ground was made
\* from a point off the origin
C25_OffPlaneVertex ==
    /\ operator = "mesh_generation"
    /\ slope_style = "LINEAR"
    /\ working_plane = "X-Y"
    /\ \E v \in Verts :
          /\ bm_verts[v].height # RInt(0)
          /\ bm_verts[v].point # <<RInt(0), RInt(0)>>


(***************************************************************************)
(* The polygon converter: the scale factor that is not computed.           *)
(***************************************************************************)
\* stroke_to_poly has returned
Converted == operator = "stroke_to_poly" /\ pc = "done"

\* the 2D points of the strokes as the projector gives them
PlanePolys == ProjectStrokes(working_plane, stroke_points)

\* the 2D points of the strokes times the factor f, no orientation being
\* corrected
PlanePolysTimes(f) ==
    [k \in 1..Len(PlanePolys) |->
        [p \in 1..Len(PlanePolys[k]) |->
            <<RMul(PlanePolys[k][p][1], f), RMul(PlanePolys[k][p][2], f)>>]]

\* a fixed factor is used and returned, whatever the scale flag
FixedFactorUsed ==
    (Converted /\ fixed_scale_factor # None) =>
        /\ scale_factor = fixed_scale_factor
        /\ ~ correct_orientation => poly_list = PlanePolysTimes(fixed_scale_factor)

\* the coordinates are unchanged with scale computation off and no fixed
\* factor
PlainCoordinates ==
    (Converted /\ ~ scale /\ fixed_scale_factor = None) =>
        (~ correct_orientation => poly_list = PlanePolys)

\* C26: stroke_to_poly called with scale computation off and no fixed scale
\* factor uses and returns a scale factor of 1 (coordinates unchanged);
\* called with a fixed scale factor it uses and returns exactly that factor,
\* whatever the scale flag
C26_DefaultFactorOne ==
    /\ FixedFactorUsed
    /\ PlainCoordinates
    /\ (Converted /\ ~ scale /\ fixed_scale_factor = None) =>
          scale_factor = RInt(1)

\* what holds of it: the fixed factor is used and returned, and without any
\* factor the coordinates are unchanged and the factor returned is None
C26_DefaultFactorNone ==
    /\ FixedFactorUsed
    /\ PlainCoordinates
    /\ (Converted /\ ~ scale /\ fixed_scale_factor = None) =>
          scale_factor = None

\* a stroke with a point off the origin was converted with scale computation
\* off and no fixed factor
C26_NoFactorCall ==
    /\ Converted
    /\ ~ scale
    /\ fixed_scale_factor = None
    /\ poly_list # <<>>
    /\ \E k \in DOMAIN poly_list : \E p \in DOMAIN poly_list[k] :
          poly_list[k][p] # <<RInt(0), RInt(0)>>


(***************************************************************************)
(* Saving and loading the selection.                                       *)
(***************************************************************************)
\* a step that calls save_stroke_selection (lines 100 and 475)
SaveStep ==
    /\ pc \in {"hole_frame", "bool_import"}
    /\ select_map' # <<>>

\* a step that calls load_stroke_selection (lines 147 and 478)
LoadStep == pc \in {"hole_frame_end", "bool_group"}

\* stroke s was selected when the selection was saved
SavedAsSelected(smap, s) ==
    \E f \in DOMAIN smap : s \in DOMAIN smap[f] /\ smap[f][s] > 0

\* the map holds the strokes that exist, and as selected the selected ones
SaveRecords ==
    \A s \in AllStrokes(strokes) :
        /\ \E f \in DOMAIN select_map' : s \in DOMAIN select_map'[f]
        /\ SavedAsSelected(select_map', s) <=> select[s]

\* of the strokes that exist, exactly those saved as selected are selected;
\* a stroke created after the save is not in the map and is deselected
LoadRestores ==
    \A s \in AllStrokes(strokes) : select'[s] <=> SavedAsSelected(select_map, s)

\* the strokes of the frame that were selected when hole processing began
\* on it are the selected ones when it has ended
HoleKeepsSelection ==
    (operator = "hole_processing" /\ pc = "done") =>
        \A s \in AllStrokes(strokes) : select[s] <=> s \in Range(to_process)

\* C27: load_stroke_selection(save_stroke_selection(x)) restores the
\* selection: after it exactly the strokes that were selected at save time
\* and still exist are selected, and strokes created after the save are
\* deselected; hole processing of a frame, which deselects and reselects
\* strokes while peeling, leaves every stroke's selection state as it was
\* before the frame was processed
C27_SelectionRestored ==
    /\ [][SaveStep => SaveRecords]_vars
    /\ [][LoadStep => LoadRestores]_vars
    /\ []HoleKeepsSelection

\* the selection was loaded for the second frame group after the first one
\* had its subject deleted and a new stroke created: the new stroke is
\* deselected and the kept clip selected again
C27_Witness ==
    /\ operator = "bool_selected"
    /\ frame_idx = 2
    /\ pc = "bool_post"
    /\ generated_strokes # <<>>
    /\ \A g \in Range(generated_strokes) : ~ select[g]
    /\ \E s \in DOMAIN select_map[1] : s \notin AllStrokes(strokes)
    /\ \E s \in Range(strokes[1]) : select[s] /\ s \in DOMAIN select_map[1]
    /\ strokes[2] # <<>>


(***************************************************************************)
(* The indices kept in stroke_info.                                        *)
(***************************************************************************)
\* a step that generates a new stroke
GenerateStep ==
    /\ pc \in {"offset_stroke", "bool_all", "bool_each"}
    /\ Len(generated_strokes') > Len(generated_strokes)

\* the tracked strokes a new stroke of the step may be generated from
Tracked ==
    IF pc = "offset_stroke" THEN {offset_j}
    ELSE (1..Len(stroke_info)) \ ref_stroke_mask'

\* the place of the tracked stroke k in its frame
ActualIndex(k) ==
    CHOOSE p \in 1..Len(strokes[stroke_info[k].layer]) :
        strokes[stroke_info[k].layer][p] = stroke_info[k].stroke

\* C28: in the offset and Boolean operators the index kept for a tracked
\* stroke equals the place of the stroke in the stroke list of its frame
\* each time a new stroke is generated from it, after any insertions of new
\* strokes and removals of originals earlier in the run
C28_IndexIsPosition ==
    [][GenerateStep =>
          \A k \in Tracked : stroke_info[k].index = ActualIndex(k)]_vars

\* the same of the steps of Boolean of Selected alone, which deletes the
\* originals of a frame group after all its new strokes
C28_BoolIndexIsPosition ==
    [][(GenerateStep /\ operator = "bool_selected") =>
          \A k \in Tracked : stroke_info[k].index = ActualIndex(k)]_vars

\* the second selected stroke of a frame is offset after the first one was
\* removed
C28_OffsetAfterRemoval ==
    /\ operator = "offset_selected"
    /\ pc = "offset_stroke"
    /\ ~ offset_keep_original
    /\ offset_j = 2
    /\ stroke_info[1].stroke \notin AllStrokes(strokes)

(***************************************************************************)
(* C29.  The mode Boolean with Last Stroke leaves the editor in.           *)
(***************************************************************************)
\* Boolean with Last Stroke has returned
LastReturned == operator = "bool_last" /\ pc = "done"

\* the exits before the search for subjects has found one: a locked layer, an
\* empty layer, no stroke to operate on
EarlyExit ==
    /\ pc \in {"boollast_layer", "boollast_collect"}
    /\ pc' = "done"

\* C29: Boolean with Last Stroke switches to edit mode on entry and is back
\* in draw mode when it returns, on every exit path (locked layer, empty
\* layer, missing dependency, no stroke to operate on, normal completion), and
\* the exits for a locked layer, an empty layer and no stroke to operate on
\* have created and removed no stroke.
C29_PaintModeOnReturn ==
    /\ [][(pc = "boollast_enter" /\ pc' # pc) => mode' = "EDIT_GPENCIL"]_vars
    /\ [](LastReturned => mode = "PAINT_GPENCIL")
    /\ [][(pc \in {"boollast_enter", "boollast_import"} \/ EarlyExit)
             => strokes' = strokes]_vars

\* C29, as the code has it: the operator is back in draw mode when it
\* returns with pyclipper installed, and is left in edit mode when it
\* returns for the missing dependency; the rest as above.
C29_PaintModeWithDependency ==
    /\ [][(pc = "boollast_enter" /\ pc' # pc) => mode' = "EDIT_GPENCIL"]_vars
    /\ [](LastReturned =>
             mode = IF pyclipper_available THEN "PAINT_GPENCIL" ELSE "EDIT_GPENCIL")
    /\ [][(pc \in {"boollast_enter", "boollast_import"} \/ EarlyExit)
             => strokes' = strokes]_vars

\* the operator has returned for the missing dependency
C29_MissingDependencyExit ==
    /\ LastReturned
    /\ ~ pyclipper_available
    /\ report = <<MissingDependencyMsg>>

\* the operator has completed with a new stroke in place of two
C29_Completed ==
    /\ LastReturned
    /\ clipper_log # <<>>
    /\ \E s \in AllStrokes(strokes) : s > MaxStrokes

(***************************************************************************)
(* C30.  The holdout materials of one run and of the next.                 *)
(***************************************************************************)
\* the strokes the running iteration of the peeling loop handles as holes
HolesOfBatch ==
    {to_process[i] : i \in {k \in Range(OutermostBatch(relation_mat, processed)) :
        AppliesHolePolicy(
            is_hole_map[ColorKey(separate_colors, vertex_color_fill, to_process[k])],
            is_stroke_line(material_slots, material_index[to_process[k]]))}}

\* a stroke handled as a hole whose material has no holdout gets the index
\* the cache holds for its material
HolesGetCached ==
    \A s \in HolesOfBatch :
        ~ is_stroke_hole(material_slots, material_index[s]) =>
            /\ material_index[s] \in DOMAIN material_idx_map'
            /\ material_index'[s] = material_idx_map'[material_index[s]]

\* during a run the cache keeps every entry it has
CacheKept ==
    \A m \in DOMAIN material_idx_map :
        /\ m \in DOMAIN material_idx_map'
        /\ material_idx_map'[m] = material_idx_map[m]

\* the source materials that enter the cache and have no '<name>_Holdout' slot
NewSources ==
    {m \in DOMAIN material_idx_map' \ DOMAIN material_idx_map :
        SlotNamed(material_slots, HoldoutName(material_slots[m].name)) = {}}

\* one material is created for each of them and no other, and no slot changes
OneCreatedPerSource ==
    /\ Len(material_slots') = Len(material_slots) + Cardinality(NewSources)
    /\ SubSeq(material_slots', 1, Len(material_slots)) = material_slots
    /\ \A i \in (Len(material_slots) + 1)..Len(material_slots') :
          \E m \in NewSources :
              /\ material_slots'[i].name = HoldoutName(material_slots[m].name)
              /\ material_idx_map'[m] = i

\* a stroke whose material has fill holdout keeps its material
HoldoutUnchanged ==
    \A s \in DOMAIN material_index :
        is_stroke_hole(material_slots, material_index[s]) =>
            material_index'[s] = material_index[s]

\* no two slots have the same name
DistinctSlotNames ==
    \A i, j \in 1..Len(material_slots) :
        material_slots[i].name = material_slots[j].name => i = j

\* C30: during one run of hole processing over several frames, the strokes
\* of one source material that are handled as holes get one and the same
\* holdout material index, at most one holdout material is created for a
\* source material and none where a slot '<name>_Holdout' exists, a stroke
\* whose material has fill holdout is left as it is, and a second run
\* creates no material.
C30_OneHoldoutPerSource ==
    /\ [][(pc = "hole_loop") => HolesGetCached]_vars
    /\ [][(hole_runs' = hole_runs) => CacheKept]_vars
    /\ [][OneCreatedPerSource]_vars
    /\ [][HoldoutUnchanged]_vars
    /\ []DistinctSlotNames
    /\ [][(hole_runs >= 1) => material_slots' = material_slots]_vars

\* the second run has returned; the first created 'Solid_Holdout' as the
\* fifth slot and gave it to a stroke of each frame
C30_Witness ==
    /\ pc = "done"
    /\ hole_runs = 1
    /\ Len(material_slots) = Len(SlotsWithTwoFills) + 1
    /\ material_slots[Len(material_slots)].name = HoldoutName(<<"Solid">>)
    /\ \E s \in Range(strokes[1]), t \in Range(strokes[2]) :
          /\ material_index[s] = Len(material_slots)
          /\ material_index[t] = Len(material_slots)
====
